---- MODULE Spec2Model ----
(***************************************************************************)
(* Verification model of the biastools scoring core:                       *)
(*   - calculatePsychologicalScore, the single-scale bidirectional         *)
(*     distortion correction (implementation/javascript/tutorial.md);      *)
(*   - MultiCategoryDistortionCorrector (multi-category-corrector.js).     *)
(*                                                                         *)
(* Both are pure functions.  The state machine is a caller that holds a    *)
(* list of pending calls (args) and the outcomes obtained so far (rets);   *)
(* each step performs the next call and appends what it returned or threw. *)
(*                                                                         *)
(* Numbers.  A JavaScript number is modelled as an exact rational          *)
(* [n |-> numerator, d |-> denominator] with d > 0; d = 0 stands for NaN   *)
(* (the result of 0/0), for which every comparison is false.               *)
(* toFixed(k) rounds the exact decimal value of a double half-up.  The     *)
(* double differs from the rational by at most a few units in the last     *)
(* place, which can only matter when the rational lies exactly half-way    *)
(* between two k-digit decimals; there the direction of the double's error *)
(* decides, and the model takes both directions (parameter up).            *)
(* Math.sqrt, and the quotient by a square root, are kept to four          *)
(* decimals.  A comparison of a computed variance with a threshold it      *)
(* equals exactly goes either way (parameter below).                       *)
(***************************************************************************)
EXTENDS Integers, Sequences, FiniteSets, TLC

VARIABLES args, rets, options, categoryDifficultyIndices, test, logFile, logTests

vars == <<args, rets, options, categoryDifficultyIndices, test, logFile, logTests>>

(***************************************************************************)
(* Bounds of the explored inputs.                                          *)
(***************************************************************************)
\* longest response list of SpecScore (lists in non-decreasing order)
MaxLen == 16
\* longest response list of SpecPerm (every list, in every order)
MaxPermLen == 4
\* longest response list of SpecPair (pairs of lists of one length)
MaxPairLen == 10
\* longest input of SpecScore that holds an invalid element
MaxBadLen == 2

\* the most questions, over all its categories, of a valid category map
MaxTotalQuestions == 5

\* longest response list of a category in the calls on two categories
MaxRankLen == 4

\* most questions, over all categories, in the calls on a configured corrector
MaxOptionQuestions == 4

\* longest response list in the calls on one category
MaxStyleLen == 10

\* longest response list in the comparison of the two single-scale correctors
MaxBothLen == 10

\* most calls made on one PsychologicalTest
MaxCalls == 4

\* most calls made on one shared corrector
MaxSharedCalls == 3

\* most requests the server receives
MaxRequests == 2

\* the tests already in test-logs.json when the server starts, in the run
\* that starts next to the cap
ExistingTests == 999

(***************************************************************************)
(* Rational arithmetic.                                                    *)
(***************************************************************************)
Rat(n, d) == [n |-> n, d |-> d]

NaN == Rat(0, 0)

IsNaN(a) == a.d = 0

RatOfInt(k) == Rat(k, 1)

Abs(k) == IF k < 0 THEN -k ELSE k

RECURSIVE Gcd(_, _)
Gcd(a, b) == IF b = 0 THEN a ELSE Gcd(b, a % b)

\* n/d in lowest terms (d > 0); keeps the integers small
Norm(n, d) == LET g == Gcd(Abs(n), d) IN Rat(n \div g, d \div g)

RatAdd(a, b) == IF IsNaN(a) \/ IsNaN(b) THEN NaN ELSE Norm(a.n * b.d + b.n * a.d, a.d * b.d)

RatSub(a, b) == IF IsNaN(a) \/ IsNaN(b) THEN NaN ELSE Norm(a.n * b.d - b.n * a.d, a.d * b.d)

RatMul(a, b) == IF IsNaN(a) \/ IsNaN(b) THEN NaN ELSE Norm(a.n * b.n, a.d * b.d)

\* a / b; 0/0 is NaN (x/0 with x # 0 is an infinity, which no modelled input produces)
RatDiv(a, b) == IF IsNaN(a) \/ IsNaN(b) \/ b.n = 0 THEN NaN
                ELSE IF b.n > 0 THEN Norm(a.n * b.d, a.d * b.n)
                ELSE Norm(-(a.n * b.d), -(a.d * b.n))

RECURSIVE Less(_, _, _, _)
\* an/ad < bn/bd for ad, bd > 0, by comparing integer parts and then the
\* reciprocals of the fractional parts (no product, so no overflow)
Less(an, ad, bn, bd) ==
    LET qa == an \div ad
        qb == bn \div bd
        ra == an % ad
        rb == bn % bd
    IN  IF qa # qb THEN qa < qb
        ELSE IF rb = 0 THEN FALSE
        ELSE IF ra = 0 THEN TRUE
        ELSE Less(bd, rb, ad, ra)

\* a < b, a <= b, a === b: false when either side is NaN
RatLT(a, b) == ~IsNaN(a) /\ ~IsNaN(b) /\ Less(a.n, a.d, b.n, b.d)

RatLE(a, b) == ~IsNaN(a) /\ ~IsNaN(b) /\ ~Less(b.n, b.d, a.n, a.d)

RatEQ(a, b) == RatLE(a, b) /\ RatLE(b, a)

\* Math.max(a, b) and Math.min(a, b): NaN if either argument is NaN
MathMax(a, b) == IF IsNaN(a) \/ IsNaN(b) THEN NaN ELSE IF RatLT(a, b) THEN b ELSE a

MathMin(a, b) == IF IsNaN(a) \/ IsNaN(b) THEN NaN ELSE IF RatLT(b, a) THEN b ELSE a

\* Math.abs(a)
MathAbs(a) == IF IsNaN(a) THEN NaN ELSE Rat(Abs(a.n), a.d)

Pow10(k) == IF k = 0 THEN 1 ELSE IF k = 1 THEN 10 ELSE IF k = 2 THEN 100
            ELSE IF k = 3 THEN 1000 ELSE 10000

\* long division: k more decimal digits of q + r/den
RECURSIVE LongDiv(_, _, _, _)
LongDiv(q, r, den, k) ==
    IF k = 0 THEN [q |-> q, r |-> r]
    ELSE LongDiv(q * 10 + ((r * 10) \div den), (r * 10) % den, den, k - 1)

\* mutant of ToFixed: toFixed() called without its argument rounds to an integer
ToFixedNoDigits(x, digits, up) ==
    LET q == IF 2 * (x.n % x.d) >= x.d THEN (x.n \div x.d) + 1 ELSE x.n \div x.d
    IN  Rat(q, 1)

\* parseFloat(x.toFixed(digits)) for x >= 0: x rounded to `digits` decimals,
\* half-way cases up when the double is exact or errs upwards (up), down otherwise
ToFixed(x, digits, up) ==
    LET qr == LongDiv(x.n \div x.d, x.n % x.d, x.d, digits)
        q  == IF 2 * qr.r > x.d \/ (2 * qr.r = x.d /\ up) THEN qr.q + 1 ELSE qr.q
    IN  Rat(q, Pow10(digits))

(***************************************************************************)
(* JavaScript values handed to the scoring function as responses.          *)
(***************************************************************************)
\* the number k
Num(k) == [type |-> "number", n |-> k, d |-> 1]

\* the number k + 1/2
Half(k) == [type |-> "number", n |-> 2 * k + 1, d |-> 2]

\* the string "k"
Str(k) == [type |-> "string", n |-> k, d |-> 1]

\* mutant of NumberIsInteger: typeof r === 'number' (accepts 2.5)
TypeofNumber(r) == r.type = "number"

NumberIsInteger(r) == r.type = "number" /\ r.d = 1

\* an array of the given elements, and a value that is no array ('invalid')
Array(elems) == [isArray |-> TRUE, elems |-> elems]

NotAnArray == [isArray |-> FALSE, elems |-> <<>>]

ArrayOfInts(s) == Array([i \in DOMAIN s |-> Num(s[i])])

(***************************************************************************)
(* calculatePsychologicalScore (tutorial.md 26-90).                        *)
(***************************************************************************)
\* mutant of Reduce: the callback returns response instead of sum + response
ReduceLast(s, initial) == IF s = <<>> THEN initial ELSE s[Len(s)].n

RECURSIVE Reduce(_, _)
\* responses.reduce((sum, response) => sum + response, initial)
Reduce(s, initial) == IF s = <<>> THEN initial ELSE Reduce(Tail(s), initial + Head(s).n)

\* responses.filter(r => r === v).length
FilterCount(s, v) == Cardinality({i \in DOMAIN s : s[i] = Num(v)})

\* Math.ceil(x), x not NaN
MathCeil(x) == -((-x.n) \div x.d)

\* mutant of Threshold: Math.floor(totalQuestions * 0.7)
ThresholdFloor(totalQuestions) == (totalQuestions * 7) \div 10

\* mutant of Threshold: half of the questions instead of 70%
ThresholdHalf(totalQuestions) == MathCeil(RatMul(RatOfInt(totalQuestions), Rat(5, 10)))

\* Math.ceil(totalQuestions * 0.7)
Threshold(totalQuestions) == MathCeil(RatMul(RatOfInt(totalQuestions), Rat(7, 10)))

\* mutant of DistortionType: counts compared with > instead of >=
DistortionTypeAbove(responses5Count, responses1Count, threshold) ==
    IF responses5Count > threshold /\ responses1Count > threshold THEN "both"
    ELSE IF responses5Count > threshold THEN "high"
    ELSE IF responses1Count > threshold THEN "low"
    ELSE "none"

DistortionType(responses5Count, responses1Count, threshold) ==
    IF responses5Count >= threshold /\ responses1Count >= threshold THEN "both"
    ELSE IF responses5Count >= threshold THEN "high"
    ELSE IF responses1Count >= threshold THEN "low"
    ELSE "none"

\* distortionType.includes('high'): a substring test, false for 'both'
IncludesHigh(distortionType) == distortionType \in {"high"}

\* distortionType.includes('low'): a substring test, false for 'both'
IncludesLow(distortionType) == distortionType \in {"low"}

\* mutant of NormalizedScore: the rescale without its "+ 1" (a 0..4 scale)
NormalizedScoreFromZero(totalScore, minPossible, maxPossible) ==
    Rat((totalScore - minPossible) * 4, maxPossible - minPossible)

\* ((totalScore - minPossible) / (maxPossible - minPossible)) * 4 + 1
NormalizedScore(totalScore, minPossible, maxPossible) ==
    RatAdd(RatMul(Rat(totalScore - minPossible, maxPossible - minPossible), RatOfInt(4)), RatOfInt(1))

\* mutant of HighCorrection: the factor with the wrong sign, 1 + (...)
HighCorrectionWrongSign(score, responses5Count, totalQuestions) ==
    Rat(score.n * (10 * totalQuestions + 3 * responses5Count), score.d * 10 * totalQuestions)

\* correctedScore *= 1 - (responses5Count / totalQuestions * 0.3)
HighCorrection(score, responses5Count, totalQuestions) ==
    RatMul(score, RatSub(RatOfInt(1), RatMul(Rat(responses5Count, totalQuestions), Rat(3, 10))))

\* mutant of LowBoost: the factor with the wrong sign, 1 - (...)
LowBoostWrongSign(score, responses1Count, totalQuestions) ==
    Rat(score.n * (10 * totalQuestions - 3 * responses1Count), score.d * 10 * totalQuestions)

\* correctedScore *= 1 + (responses1Count / totalQuestions * 0.3)
LowBoost(score, responses1Count, totalQuestions) ==
    RatMul(score, RatAdd(RatOfInt(1), RatMul(Rat(responses1Count, totalQuestions), Rat(3, 10))))

\* mutant of EnsureBounds: min and max exchanged, Math.min(1.0001, Math.max(correctedScore, 5.0))
EnsureBoundsSwapped(score) == MathMin(Rat(10001, 10000), MathMax(score, RatOfInt(5)))

\* Math.max(1.0001, Math.min(correctedScore, 5.0))
EnsureBounds(score) == MathMax(Rat(10001, 10000), MathMin(score, RatOfInt(5)))

Throw(message) == [threw |-> TRUE, error |-> message]

Return(value) == [threw |-> FALSE, value |-> value]

calculatePsychologicalScore(responses, up) ==
    IF ~responses.isArray \/ Len(responses.elems) = 0
    THEN Throw("Responses must be a non-empty array")
    ELSE IF ~(\A i \in DOMAIN responses.elems :
                 LET r == responses.elems[i] IN NumberIsInteger(r) /\ r.n >= 1 /\ r.n <= 5)
    THEN Throw("All responses must be integers between 1 and 5")
    ELSE
    LET elems            == responses.elems
        totalQuestions   == Len(elems)
        totalScore       == Reduce(elems, 0)
        minPossible      == totalQuestions * 1
        maxPossible      == totalQuestions * 5
        normalizedScore  == NormalizedScore(totalScore, minPossible, maxPossible)
        responses5Count  == FilterCount(elems, 5)
        responses1Count  == FilterCount(elems, 1)
        threshold        == Threshold(totalQuestions)
        distortionType   == DistortionType(responses5Count, responses1Count, threshold)
        afterHigh        == IF IncludesHigh(distortionType)
                            THEN HighCorrection(normalizedScore, responses5Count, totalQuestions)
                            ELSE normalizedScore
        afterLow         == IF IncludesLow(distortionType)
                            THEN LowBoost(afterHigh, responses1Count, totalQuestions)
                            ELSE afterHigh
        correctedScore   == EnsureBounds(afterLow)
        \* without a correction correctedScore is the very double normalizedScore is
        exact            == distortionType = "none"
    IN  Return([totalScore      |-> totalScore,
                normalizedScore |-> ToFixed(normalizedScore, 4, TRUE),
                correctedScore  |-> ToFixed(correctedScore, 4, exact \/ up),
                responses5Count |-> responses5Count,
                responses1Count |-> responses1Count,
                threshold       |-> threshold,
                distortionType  |-> distortionType,
                totalQuestions  |-> totalQuestions,
                maxScore        |-> maxPossible])

(***************************************************************************)
(* The reusable functions of docs/algorithm-specification.md (117-160),    *)
(* which cut the score after each correction step.                         *)
(***************************************************************************)
\* Object.keys(answers).length and the two filter counts
detectExtremeCounts(answers) ==
    [totalQuestions |-> Len(answers.elems),
     responses5     |-> FilterCount(answers.elems, 5),
     responses1     |-> FilterCount(answers.elems, 1)]

\* mutant of applyHighEndCorrection: the correction factor left out
applyHighEndCorrectionNoFactor(normalizedScore, responses5, totalQuestions, maxReduction) ==
    MathMax(RatOfInt(1), normalizedScore)

\* Math.max(1, normalizedScore * (1 - (responses5 / totalQuestions) * maxReduction))
applyHighEndCorrection(normalizedScore, responses5, totalQuestions, maxReduction) ==
    LET distortionFactor == Rat(responses5, totalQuestions)
        correctionFactor == RatSub(RatOfInt(1), RatMul(distortionFactor, maxReduction))
    IN  MathMax(RatOfInt(1), RatMul(normalizedScore, correctionFactor))

\* Math.max(1.0001, normalizedScore * (1 + (responses1 / totalQuestions) * maxIncrease))
applyLowEndBoost(normalizedScore, responses1, totalQuestions, maxIncrease) ==
    LET distortionFactor == Rat(responses1, totalQuestions)
        boostFactor      == RatAdd(RatOfInt(1), RatMul(distortionFactor, maxIncrease))
    IN  MathMax(Rat(10001, 10000), RatMul(normalizedScore, boostFactor))

correctScoreBidirectional(answers, normalizedScore) ==
    LET counts                 == detectExtremeCounts(answers)
        totalQuestions         == counts.totalQuestions
        responses5             == counts.responses5
        responses1             == counts.responses1
        threshold              == MathCeil(RatMul(RatOfInt(totalQuestions), Rat(7, 10)))
        maxAdjustment          == Rat(3, 10)
        highDistortionDetected == responses5 >= threshold
        lowDistortionDetected  == responses1 >= threshold
        afterHigh              == IF highDistortionDetected
                                  THEN applyHighEndCorrection(normalizedScore, responses5,
                                                              totalQuestions, maxAdjustment)
                                  ELSE normalizedScore
        afterLow               == IF lowDistortionDetected
                                  THEN applyLowEndBoost(afterHigh, responses1, totalQuestions,
                                                        maxAdjustment)
                                  ELSE afterHigh
        score                  == MathMax(Rat(10001, 10000), MathMin(RatOfInt(5), afterLow))
    IN  [correctedScore |-> score,
         meta |-> [totalQuestions         |-> totalQuestions,
                   responses5             |-> responses5,
                   responses1             |-> responses1,
                   threshold              |-> threshold,
                   highDistortionDetected |-> highDistortionDetected,
                   lowDistortionDetected  |-> lowDistortionDetected]]

(***************************************************************************)
(* MultiCategoryDistortionCorrector (multi-category-corrector.js).         *)
(* Strings are sequences of characters; an object is the sequence of its   *)
(* entries [key, value] in insertion order.                                 *)
(***************************************************************************)
\* the defaults of the constructor: this.options of a corrector constructed
\* without options
DefaultOptions ==
    [maxGlobalAdjustment          |-> Rat(3, 10),
     maxRelativeAdjustment        |-> Rat(15, 100),
     minScore                     |-> Rat(101, 100),
     maxScore                     |-> Rat(5, 1),
     debugMode                    |-> FALSE,
     zeroVarianceThreshold        |-> Rat(1, 100),
     categoryDifficultyAdjustment |-> Rat(8, 100)]

\* this.options = {...defaults, ...options}: the given options override the
\* defaults
Constructor(given) ==
    [name \in DOMAIN DefaultOptions |->
        IF name \in DOMAIN given THEN given[name] ELSE DefaultOptions[name]]

\* this.options.maxGlobalAdjustment, and so on
maxGlobalAdjustment == options.maxGlobalAdjustment

maxRelativeAdjustment == options.maxRelativeAdjustment

minScore == options.minScore

maxScore == options.maxScore

zeroVarianceThreshold == options.zeroVarianceThreshold

categoryDifficultyAdjustment == options.categoryDifficultyAdjustment

\* the table the constructor assigns to this.categoryDifficultyIndices, in
\* insertion order
DefaultDifficultyIndices ==
    << [key |-> <<"l", "e", "a", "d", "e", "r", "s", "h", "i", "p">>, value |-> Rat(15, 100)],
       [key |-> <<"d", "e", "c", "i", "s", "i", "o", "n", "_", "m", "a", "k", "i", "n", "g">>, value |-> Rat(12, 100)],
       [key |-> <<"s", "t", "r", "a", "t", "e", "g", "i", "c", "_", "t", "h", "i", "n", "k", "i", "n", "g">>, value |-> Rat(14, 100)],
       [key |-> <<"p", "r", "o", "b", "l", "e", "m", "_", "s", "o", "l", "v", "i", "n", "g">>, value |-> Rat(10, 100)],
       [key |-> <<"c", "r", "i", "t", "i", "c", "a", "l", "_", "t", "h", "i", "n", "k", "i", "n", "g">>, value |-> Rat(8, 100)],
       [key |-> <<"c", "r", "e", "a", "t", "i", "v", "i", "t", "y", "_", "i", "n", "n", "o", "v", "a", "t", "i", "o", "n">>, value |-> Rat(6, 100)],
       [key |-> <<"c", "o", "m", "m", "u", "n", "i", "c", "a", "t", "i", "o", "n">>, value |-> Rat(5, 100)],
       [key |-> <<"e", "m", "o", "t", "i", "o", "n", "a", "l", "_", "i", "n", "t", "e", "l", "l", "i", "g", "e", "n", "c", "e">>, value |-> Rat(3, 100)],
       [key |-> <<"c", "o", "n", "f", "l", "i", "c", "t", "_", "r", "e", "s", "o", "l", "u", "t", "i", "o", "n">>, value |-> Rat(4, 100)],
       [key |-> <<"t", "e", "a", "m", "w", "o", "r", "k">>, value |-> Rat(0, 100)],
       [key |-> <<"c", "u", "s", "t", "o", "m", "e", "r", "_", "s", "e", "r", "v", "i", "c", "e">>, value |-> Rat(-2, 100)],
       [key |-> <<"n", "e", "g", "o", "t", "i", "a", "t", "i", "o", "n">>, value |-> Rat(1, 100)],
       [key |-> <<"a", "d", "a", "p", "t", "a", "b", "i", "l", "i", "t", "y">>, value |-> Rat(-5, 100)],
       [key |-> <<"t", "i", "m", "e", "_", "m", "a", "n", "a", "g", "e", "m", "e", "n", "t">>, value |-> Rat(-8, 100)],
       [key |-> <<"p", "r", "o", "j", "e", "c", "t", "_", "m", "a", "n", "a", "g", "e", "m", "e", "n", "t">>, value |-> Rat(-6, 100)],
       [key |-> <<"t", "e", "c", "h", "n", "i", "c", "a", "l", "_", "s", "k", "i", "l", "l", "s">>, value |-> Rat(-10, 100)],
       [key |-> <<"d", "e", "f", "a", "u", "l", "t">>, value |-> Rat(0, 100)] >>

UpperCaseLetters == <<"A", "B", "C", "D", "E", "F", "G", "H", "I", "J", "K", "L", "M", "N", "O", "P", "Q", "R", "S", "T", "U", "V", "W", "X", "Y", "Z">>

LowerCaseLetters == <<"a", "b", "c", "d", "e", "f", "g", "h", "i", "j", "k", "l", "m", "n", "o", "p", "q", "r", "s", "t", "u", "v", "w", "x", "y", "z">>

\* categoryId.toLowerCase()
ToLowerCase(s) ==
    [i \in DOMAIN s |->
        IF \E k \in DOMAIN UpperCaseLetters : UpperCaseLetters[k] = s[i]
        THEN LowerCaseLetters[CHOOSE k \in DOMAIN UpperCaseLetters : UpperCaseLetters[k] = s[i]]
        ELSE s[i]]

\* .replace(/[_\-\s]/g, '_') (of the whitespace characters, the space)
ReplaceSeparators(s) == [i \in DOMAIN s |-> IF s[i] \in {"_", "-", " "} THEN "_" ELSE s[i]]

\* s.includes(t)
Includes(s, t) == \E k \in 0..(Len(s) - Len(t)) : SubSeq(s, k + 1, k + Len(t)) = t

getCategoryDifficultyIndex(categoryId) ==
    LET normalizedId == ReplaceSeparators(ToLowerCase(categoryId))
        table        == categoryDifficultyIndices
        direct       == {i \in DOMAIN table : table[i].key = normalizedId}
        partial      == {i \in DOMAIN table :
                            Includes(normalizedId, table[i].key) \/ Includes(table[i].key, normalizedId)}
        default      == CHOOSE i \in DOMAIN table : table[i].key = <<"d", "e", "f", "a", "u", "l", "t">>
    IN  IF direct # {} THEN table[CHOOSE i \in direct : TRUE].value
        ELSE IF partial # {} THEN table[CHOOSE i \in partial : \A j \in partial : i <= j].value
        ELSE table[default].value

\* Object.entries(obj), Object.keys(obj), Object.values(obj)
ObjectEntries(obj) == obj.entries

ObjectKeys(obj) == [i \in DOMAIN obj.entries |-> obj.entries[i].key]

ObjectValues(obj) == [i \in DOMAIN obj.entries |-> obj.entries[i].value]

\* the object with the given entries, and null
Object(entries) == [isObject |-> TRUE, entries |-> entries]

Null == [isObject |-> FALSE, entries |-> <<>>]

\* null as the responses of a category
NullResponses == [isArray |-> FALSE, elems |-> <<>>]

\* null as a field of a result
NullValue == [null |-> TRUE]

\* the value of a JavaScript number
NumberValue(v) == Rat(v.n, v.d)

RECURSIVE ReduceSum(_, _)
\* values.reduce((a, b) => a + b, initial)
ReduceSum(s, initial) == IF s = <<>> THEN initial ELSE ReduceSum(Tail(s), RatAdd(initial, Head(s)))

RECURSIVE ReduceSquares(_, _, _)
\* values.reduce((acc, val) => acc + Math.pow(val - mean, 2), initial)
ReduceSquares(s, mean, initial) ==
    IF s = <<>> THEN initial
    ELSE ReduceSquares(Tail(s), mean,
                       RatAdd(initial, RatMul(RatSub(Head(s), mean), RatSub(Head(s), mean))))

RECURSIVE SqrtBetween(_, _, _)
\* the largest k in lo..hi with k * k <= n
SqrtBetween(n, lo, hi) ==
    IF lo = hi THEN lo
    ELSE LET mid == (lo + hi + 1) \div 2
         IN  IF mid * mid <= n THEN SqrtBetween(n, mid, hi) ELSE SqrtBetween(n, lo, mid - 1)

\* Math.sqrt(x) for 0 <= x < 21, to four decimals (truncated)
MathSqrt(x) ==
    IF IsNaN(x) THEN NaN
    ELSE Norm(SqrtBetween(LongDiv(x.n \div x.d, x.n % x.d, x.d, 8).q, 0, 46340),
              Pow10(4))

\* a / b where b came from Math.sqrt, to four decimals (truncated towards 0)
Quotient(a, b) ==
    LET x == RatDiv(a, b)
        m == Abs(x.n)
        q == LongDiv(m \div x.d, m % x.d, x.d, 4).q
    IN  IF IsNaN(x) THEN NaN ELSE Norm(IF x.n < 0 THEN -q ELSE q, Pow10(4))

\* mutant of isZeroVarianceScenario: the variance compared with 0 instead of the threshold
isZeroVarianceScenarioNever(categoryScores, below) ==
    LET scores   == ObjectValues(categoryScores)
        mean     == RatDiv(ReduceSum(scores, RatOfInt(0)), RatOfInt(Len(scores)))
        variance == RatDiv(ReduceSquares(scores, mean, RatOfInt(0)), RatOfInt(Len(scores)))
    IN  RatLT(variance, RatOfInt(0))

\* variance < zeroVarianceThreshold; the variance is a sum of rounded doubles,
\* so when it is the threshold exactly the comparison goes the way the
\* rounding errors fall (below): true for the means 1 and 1.2, false for 2 and 2.2
isZeroVarianceScenario(categoryScores, below) ==
    LET scores   == ObjectValues(categoryScores)
        mean     == RatDiv(ReduceSum(scores, RatOfInt(0)), RatOfInt(Len(scores)))
        variance == RatDiv(ReduceSquares(scores, mean, RatOfInt(0)), RatOfInt(Len(scores)))
    IN  RatLT(variance, zeroVarianceThreshold) \/ (below /\ RatEQ(variance, zeroVarianceThreshold))

RECURSIVE Flatten(_)
\* allResponses after pushing the values of every category
Flatten(lists) == IF lists = <<>> THEN <<>> ELSE Head(lists) \o Flatten(Tail(lists))

calculateGlobalStats(categoryData) ==
    LET allResponses     == Flatten([i \in DOMAIN categoryData.entries |->
                                         categoryData.entries[i].value.elems])
        values           == [i \in DOMAIN allResponses |-> NumberValue(allResponses[i])]
        totalQuestions   == Len(allResponses)
        globalResponses5 == FilterCount(allResponses, 5)
        globalResponses1 == FilterCount(allResponses, 1)
        globalSum        == ReduceSum(values, RatOfInt(0))
        globalMean       == RatDiv(globalSum, RatOfInt(totalQuestions))
        variance         == RatDiv(ReduceSquares(values, globalMean, RatOfInt(0)),
                                   RatOfInt(totalQuestions))
    IN  [totalQuestions    |-> totalQuestions,
         globalResponses5  |-> globalResponses5,
         globalResponses1  |-> globalResponses1,
         responses5Percent |-> RatDiv(RatOfInt(globalResponses5), RatOfInt(totalQuestions)),
         responses1Percent |-> RatDiv(RatOfInt(globalResponses1), RatOfInt(totalQuestions)),
         globalMean        |-> globalMean,
         variance          |-> variance,
         standardDeviation |-> MathSqrt(variance)]

\* mutant of classifyResponseStyle: extreme_style up to a variance of 3
classifyResponseStyleWide(globalStats) ==
    LET responses5Percent == globalStats.responses5Percent
        responses1Percent == globalStats.responses1Percent
        globalMean        == globalStats.globalMean
        variance          == globalStats.variance
    IN  IF RatLE(Rat(4, 10), responses5Percent) \/ RatLE(Rat(42, 10), globalMean)
        THEN "high_acquiescence"
        ELSE IF RatLE(Rat(4, 10), responses1Percent) \/ RatLE(globalMean, Rat(22, 10))
        THEN "low_acquiescence"
        ELSE IF RatLE(Rat(6, 10), RatAdd(responses5Percent, responses1Percent))
                /\ RatLT(variance, Rat(3, 1))
        THEN "extreme_style"
        ELSE IF RatLT(responses5Percent, Rat(1, 10)) /\ RatLT(responses1Percent, Rat(1, 10))
        THEN "central_tendency"
        ELSE "balanced"

\* mutant of classifyResponseStyle: the low condition tested before the high one
classifyResponseStyleLowFirst(globalStats) ==
    LET responses5Percent == globalStats.responses5Percent
        responses1Percent == globalStats.responses1Percent
        globalMean        == globalStats.globalMean
        variance          == globalStats.variance
    IN  IF RatLE(Rat(4, 10), responses1Percent) \/ RatLE(globalMean, Rat(22, 10))
        THEN "low_acquiescence"
        ELSE IF RatLE(Rat(4, 10), responses5Percent) \/ RatLE(Rat(42, 10), globalMean)
        THEN "high_acquiescence"
        ELSE IF RatLE(Rat(6, 10), RatAdd(responses5Percent, responses1Percent))
                /\ RatLT(variance, Rat(15, 10))
        THEN "extreme_style"
        ELSE IF RatLT(responses5Percent, Rat(1, 10)) /\ RatLT(responses1Percent, Rat(1, 10))
        THEN "central_tendency"
        ELSE "balanced"

classifyResponseStyle(globalStats) ==
    LET responses5Percent == globalStats.responses5Percent
        responses1Percent == globalStats.responses1Percent
        globalMean        == globalStats.globalMean
        variance          == globalStats.variance
    IN  IF RatLE(Rat(4, 10), responses5Percent) \/ RatLE(Rat(42, 10), globalMean)
        THEN "high_acquiescence"
        ELSE IF RatLE(Rat(4, 10), responses1Percent) \/ RatLE(globalMean, Rat(22, 10))
        THEN "low_acquiescence"
        ELSE IF RatLE(Rat(6, 10), RatAdd(responses5Percent, responses1Percent))
                /\ RatLT(variance, Rat(15, 10))
        THEN "extreme_style"
        ELSE IF RatLT(responses5Percent, Rat(1, 10)) /\ RatLT(responses1Percent, Rat(1, 10))
        THEN "central_tendency"
        ELSE "balanced"

calculateCategoryScores(categoryData) ==
    Object([i \in DOMAIN categoryData.entries |->
        LET responses == categoryData.entries[i].value.elems
            sum       == ReduceSum([j \in DOMAIN responses |-> NumberValue(responses[j])], RatOfInt(0))
        IN  [key |-> categoryData.entries[i].key, value |-> RatDiv(sum, RatOfInt(Len(responses)))]])

RECURSIVE Insert(_, _)
\* x put before the first element of the descending list s that the comparator
\* (a, b) => b - a orders after it (a NaN compares as equal to everything)
Insert(s, x) ==
    IF s = <<>> THEN <<x>>
    ELSE IF RatLT(Head(s), x) THEN <<x>> \o s
    ELSE <<Head(s)>> \o Insert(Tail(s), x)

RECURSIVE SortDescending(_)
\* [...scores].sort((a, b) => b - a)
SortDescending(s) == IF s = <<>> THEN <<>> ELSE Insert(SortDescending(SubSeq(s, 1, Len(s) - 1)), s[Len(s)])

\* mutant of IndexOf: the last index instead of the first (lastIndexOf)
IndexOfLast(s, x) ==
    IF \E i \in DOMAIN s : RatEQ(s[i], x)
    THEN (CHOOSE i \in DOMAIN s : RatEQ(s[i], x) /\ \A j \in (i + 1)..Len(s) : ~RatEQ(s[j], x)) - 1
    ELSE -1

\* array.indexOf(x): the first index (from 0) of an element === x, or -1
IndexOf(s, x) ==
    IF \E i \in DOMAIN s : RatEQ(s[i], x)
    THEN (CHOOSE i \in DOMAIN s : RatEQ(s[i], x) /\ \A j \in 1..(i - 1) : ~RatEQ(s[j], x)) - 1
    ELSE -1

calculateCategoryPositioning(categoryScores) ==
    LET scores       == ObjectValues(categoryScores)
        sortedScores == SortDescending(scores)
        globalMean   == RatDiv(ReduceSum(scores, RatOfInt(0)), RatOfInt(Len(scores)))
        variance     == RatDiv(ReduceSquares(scores, globalMean, RatOfInt(0)), RatOfInt(Len(scores)))
        stdDev       == MathMax(Rat(5, 10), MathSqrt(variance))
    IN  Object([i \in DOMAIN categoryScores.entries |->
            LET score == categoryScores.entries[i].value
                rank  == IndexOf(sortedScores, score) + 1
            IN  [key   |-> categoryScores.entries[i].key,
                 value |-> [score            |-> score,
                            rank             |-> rank,
                            percentileRank   |-> Rat(Len(scores) - rank + 1, Len(scores)),
                            relativeDistance |-> Quotient(RatSub(score, globalMean), stdDev),
                            isAboveAverage   |-> RatLT(globalMean, score),
                            distanceFromMean |-> MathAbs(RatSub(score, globalMean))]]])

\* mutant of calculateGlobalCorrection: the default (balanced) case expands
\* the range as central_tendency does
calculateGlobalCorrectionExpand(responseStyle, globalStats) ==
    LET responses5Percent == globalStats.responses5Percent
        responses1Percent == globalStats.responses1Percent
        highBias     == MathMin(maxGlobalAdjustment, RatMul(responses5Percent, Rat(5, 10)))
        lowBias      == MathMin(maxGlobalAdjustment, RatMul(responses1Percent, Rat(5, 10)))
        extremeBias  == RatMul(RatAdd(responses5Percent, responses1Percent), Rat(2, 10))
        globalFactor ==
            IF responseStyle = "high_acquiescence" THEN RatSub(RatOfInt(1), highBias)
            ELSE IF responseStyle = "low_acquiescence" THEN RatAdd(RatOfInt(1), lowBias)
            ELSE IF responseStyle = "extreme_style"
            THEN RatSub(RatOfInt(1), MathMin(Rat(15, 100), extremeBias))
            ELSE Rat(105, 100)
    IN  MathMax(Rat(7, 10), MathMin(Rat(13, 10), globalFactor))

calculateGlobalCorrection(responseStyle, globalStats) ==
    LET responses5Percent == globalStats.responses5Percent
        responses1Percent == globalStats.responses1Percent
        highBias     == MathMin(maxGlobalAdjustment, RatMul(responses5Percent, Rat(5, 10)))
        lowBias      == MathMin(maxGlobalAdjustment, RatMul(responses1Percent, Rat(5, 10)))
        extremeBias  == RatMul(RatAdd(responses5Percent, responses1Percent), Rat(2, 10))
        globalFactor ==
            IF responseStyle = "high_acquiescence" THEN RatSub(RatOfInt(1), highBias)
            ELSE IF responseStyle = "low_acquiescence" THEN RatAdd(RatOfInt(1), lowBias)
            ELSE IF responseStyle = "extreme_style"
            THEN RatSub(RatOfInt(1), MathMin(Rat(15, 100), extremeBias))
            ELSE IF responseStyle = "central_tendency" THEN Rat(105, 100)
            ELSE RatOfInt(1)
    IN  MathMax(Rat(7, 10), MathMin(Rat(13, 10), globalFactor))

\* mutant of EnsureFactorBounds: the relative factor returned as computed
EnsureFactorBoundsNone(relativeFactor) == relativeFactor

\* Math.max(0.85, Math.min(1.15, relativeFactor))
EnsureFactorBounds(relativeFactor) == MathMax(Rat(85, 100), MathMin(Rat(115, 100), relativeFactor))

calculateRelativeFactor(categoryPosition, responseStyle, categoryId, isZeroVariance) ==
    LET relativeDistance == categoryPosition.relativeDistance
        isAboveAverage   == categoryPosition.isAboveAverage
        cdi              == getCategoryDifficultyIndex(categoryId)
        plus(k)          == RatAdd(RatOfInt(1), RatMul(relativeDistance, k))
        minusAbs(k)      == RatSub(RatOfInt(1), RatMul(MathAbs(relativeDistance), k))
        relativeFactor   ==
            IF responseStyle = "high_acquiescence"
            THEN IF isAboveAverage THEN plus(Rat(1, 10)) ELSE minusAbs(Rat(5, 100))
            ELSE IF responseStyle = "low_acquiescence"
            THEN IF ~isAboveAverage THEN minusAbs(Rat(1, 10)) ELSE plus(Rat(5, 100))
            ELSE IF responseStyle = "extreme_style" THEN plus(Rat(5, 100))
            ELSE IF responseStyle = "central_tendency" THEN plus(Rat(1, 10))
            ELSE RatOfInt(1)
    IN  IF isZeroVariance
        THEN MathMax(Rat(92, 100), MathMin(Rat(108, 100),
                 RatSub(RatOfInt(1), RatMul(cdi, categoryDifficultyAdjustment))))
        ELSE IF responseStyle = "balanced" THEN RatOfInt(1)
        ELSE EnsureFactorBounds(relativeFactor)

\* mutant of EnsureScoreBounds: the upper bound alone, Math.min(maxScore, correctedScore)
EnsureScoreBoundsNoMin(correctedScore) == MathMin(maxScore, correctedScore)

\* Math.max(this.options.minScore, Math.min(this.options.maxScore, correctedScore))
EnsureScoreBounds(correctedScore) == MathMax(minScore, MathMin(maxScore, correctedScore))

\* ((x) * 100).toFixed(2) as a number of hundredths; "NaN" is NaN
AdjustmentPercent(x) ==
    IF IsNaN(x) THEN NaN
    ELSE LET r == ToFixed(MathAbs(x), 4, TRUE) IN Rat(IF x.n < 0 THEN -r.n ELSE r.n, 100)

applyCategoryCorrections(positioning, responseStyle, globalFactor, below) ==
    LET categoryScores == Object([i \in DOMAIN positioning.entries |->
                              [key   |-> positioning.entries[i].key,
                               value |-> positioning.entries[i].value.score]])
        isZeroVariance == isZeroVarianceScenario(categoryScores, below)
    IN  Object([i \in DOMAIN positioning.entries |->
            LET categoryId     == positioning.entries[i].key
                position       == positioning.entries[i].value
                relativeFactor == calculateRelativeFactor(position, responseStyle, categoryId,
                                                          isZeroVariance)
                originalScore  == position.score
                correctedScore == EnsureScoreBounds(
                                      RatMul(RatMul(originalScore, globalFactor), relativeFactor))
                totalAdjustment == RatDiv(correctedScore, originalScore)
            IN  [key   |-> categoryId,
                 value |-> [originalScore           |-> originalScore,
                            correctedScore          |-> correctedScore,
                            globalFactor            |-> globalFactor,
                            relativeFactor          |-> relativeFactor,
                            totalAdjustment         |-> totalAdjustment,
                            adjustmentPercent       |-> AdjustmentPercent(
                                                            RatSub(totalAdjustment, RatOfInt(1))),
                            position                |-> position,
                            categoryDifficultyIndex |-> IF isZeroVariance
                                                        THEN getCategoryDifficultyIndex(categoryId)
                                                        ELSE NullValue,
                            zeroVarianceCorrection  |-> isZeroVariance]]])

\* Object.values(null) throws a TypeError, which the catch block logs and
\* rethrows; nothing else in the body throws
correctMultiCategory(categoryData, below) ==
    IF ~categoryData.isObject
       \/ \E i \in DOMAIN categoryData.entries : ~categoryData.entries[i].value.isArray
    THEN Throw("TypeError: Cannot convert undefined or null to object")
    ELSE
    LET globalStats         == calculateGlobalStats(categoryData)
        responseStyle       == classifyResponseStyle(globalStats)
        categoryScores      == calculateCategoryScores(categoryData)
        positioning         == calculateCategoryPositioning(categoryScores)
        globalFactor        == calculateGlobalCorrection(responseStyle, globalStats)
        correctedCategories == applyCategoryCorrections(positioning, responseStyle, globalFactor,
                                                        below)
    IN  Return([correctedCategories |-> correctedCategories,
                originalCategories  |-> categoryScores,
                globalStats         |-> globalStats,
                responseStyle       |-> responseStyle,
                metadata            |-> [globalFactor      |-> globalFactor,
                                         totalCategories   |-> Len(ObjectKeys(categoryData)),
                                         totalQuestions    |-> globalStats.totalQuestions,
                                         correctionApplied |-> ~RatEQ(globalFactor, RatOfInt(1))
                                                               \/ responseStyle # "balanced"]])

validateCategoryData(categoryData) ==
    IF ~categoryData.isObject THEN Throw("Category data must be an object")
    ELSE IF \E i \in DOMAIN categoryData.entries : ~categoryData.entries[i].value.isArray
    THEN Throw("Invalid responses for category")
    ELSE IF \E i \in DOMAIN categoryData.entries :
                \E j \in DOMAIN categoryData.entries[i].value.elems :
                    LET value == categoryData.entries[i].value.elems[j]
                    IN  value.type # "number" \/ RatLT(NumberValue(value), RatOfInt(1))
                                             \/ RatLT(RatOfInt(5), NumberValue(value))
    THEN Throw("Invalid response value")
    ELSE Return(TRUE)

RECURSIVE ReduceMax(_)
\* Math.max(...values), values not empty
ReduceMax(values) ==
    IF Len(values) = 1 THEN values[1] ELSE MathMax(values[1], ReduceMax(Tail(values)))

\* generateReport of the results of a valid map; a text "x%" is the number
\* x; up is the direction of the half-way cases of toFixed
generateReport(correctionResults, up) ==
    LET correctedCategories == correctionResults.correctedCategories
        metadata            == correctionResults.metadata
        entries             == correctedCategories.entries
        totalOriginal       == ReduceSum([i \in DOMAIN entries |-> entries[i].value.originalScore],
                                         RatOfInt(0))
        totalCorrected      == ReduceSum([i \in DOMAIN entries |-> entries[i].value.correctedScore],
                                         RatOfInt(0))
        adjustments         == [i \in DOMAIN entries |->
                                   MathAbs(RatSub(entries[i].value.totalAdjustment, RatOfInt(1)))]
        categoryCount       == Len(ObjectKeys(correctedCategories))
    IN  [summary    |-> [responseStyle     |-> correctionResults.responseStyle,
                         globalFactor      |-> metadata.globalFactor,
                         totalCategories   |-> metadata.totalCategories,
                         totalQuestions    |-> metadata.totalQuestions,
                         correctionApplied |-> metadata.correctionApplied],
         categories |-> Object([i \in DOMAIN entries |->
             LET data == entries[i].value
             IN  [key   |-> entries[i].key,
                  value |-> [originalScore     |-> ToFixed(data.originalScore, 3, up),
                             correctedScore    |-> ToFixed(data.correctedScore, 3, up),
                             adjustmentPercent |-> data.adjustmentPercent,
                             rank              |-> data.position.rank,
                             percentile        |-> ToFixed(RatMul(data.position.percentileRank,
                                                                  RatOfInt(100)), 1, up)]]]),
         statistics |-> [originalMean      |-> ToFixed(RatDiv(totalOriginal, RatOfInt(categoryCount)),
                                                       3, up),
                         correctedMean     |-> ToFixed(RatDiv(totalCorrected, RatOfInt(categoryCount)),
                                                       3, up),
                         originalVariance  |-> RatOfInt(0),
                         correctedVariance |-> RatOfInt(0),
                         largestAdjustment |-> ToFixed(RatMul(ReduceMax(adjustments), RatOfInt(100)),
                                                       2, up),
                         averageAdjustment |-> ToFixed(RatMul(RatDiv(ReduceSum(adjustments, RatOfInt(0)),
                                                                     RatOfInt(Len(adjustments))),
                                                              RatOfInt(100)), 2, up)]]

\* mutant of AfterCall: the call keeps its global factor cap at 0 in the options
AfterCallWriting(this, argument) ==
    [this     |-> [this EXCEPT !.options.maxGlobalAdjustment = Rat(0, 1)],
     argument |-> argument]

\* the corrector and the argument after a call of correctMultiCategory or
\* generateReport: neither method assigns to a field of this or of its
\* argument (what they build, they build in new objects)
AfterCall(this, argument) == [this |-> this, argument |-> argument]

(***************************************************************************)
(* class PsychologicalTest (tutorial.md 100-200).  A method is an operator *)
(* that gives the object after the call (this) and what the call returned  *)
(* or threw (outcome).                                                     *)
(***************************************************************************)
\* the value of a call that returns nothing
Undefined == [undefined |-> TRUE]

\* this.results = {}
NoResults == Object(<<>>)

\* constructor(questions = [])
PsychologicalTest(questions) ==
    [questions |-> questions, responses |-> <<>>, results |-> NoResults]

addQuestion(this, question) ==
    [this    |-> [this EXCEPT !.questions = Append(@, question)],
     outcome |-> Return(Undefined)]

\* mutant of addResponse: the response pushed without the test
addResponseUnchecked(this, response) ==
    [this    |-> [this EXCEPT !.responses = Append(@, response)],
     outcome |-> Return(Undefined)]

addResponse(this, response) ==
    IF ~NumberIsInteger(response) \/ response.n < 1 \/ response.n > 5
    THEN [this |-> this, outcome |-> Throw("Response must be an integer between 1 and 5")]
    ELSE [this    |-> [this EXCEPT !.responses = Append(@, response)],
          outcome |-> Return(Undefined)]

RECURSIVE ForEachAddResponse(_, _)
\* responses.forEach(response => this.addResponse(response)): the first
\* throw ends the loop
ForEachAddResponse(this, elems) ==
    IF elems = <<>> THEN [this |-> this, outcome |-> Return(Undefined)]
    ELSE LET added == addResponse(this, Head(elems))
         IN  IF added.outcome.threw THEN added
             ELSE ForEachAddResponse(added.this, Tail(elems))

\* mutant of setResponses: nothing is stored unless every element is valid
setResponsesAtomic(this, responses) ==
    LET done == IF responses.isArray
                THEN ForEachAddResponse([this EXCEPT !.responses = <<>>], responses.elems)
                ELSE [this    |-> this,
                      outcome |-> Throw("TypeError: responses.forEach is not a function")]
    IN  IF done.outcome.threw THEN [this |-> this, outcome |-> done.outcome] ELSE done

setResponses(this, responses) ==
    LET emptied == [this EXCEPT !.responses = <<>>]
    IN  IF responses.isArray THEN ForEachAddResponse(emptied, responses.elems)
        ELSE [this    |-> emptied,
              outcome |-> Throw("TypeError: responses.forEach is not a function")]

calculateResults(this, up) ==
    IF Len(this.responses) = 0
    THEN [this |-> this, outcome |-> Throw("No responses provided")]
    ELSE LET score == calculatePsychologicalScore(Array(this.responses), up)
         IN  IF score.threw THEN [this |-> this, outcome |-> score]
             ELSE [this |-> [this EXCEPT !.results = score.value], outcome |-> score]

\* the level named in the interpretation of a score
Level(score) ==
    IF RatLE(Rat(45, 10), score) THEN "Level: Excellent competency"
    ELSE IF RatLE(Rat(35, 10), score) THEN "Level: Good competency"
    ELSE IF RatLE(Rat(25, 10), score) THEN "Level: Average competency"
    ELSE IF RatLE(Rat(15, 10), score) THEN "Level: Below average competency"
    ELSE "Level: Low competency"

\* the text of the interpretation, by its parts: the score with four
\* decimals, the level and the distortion named in the warning (none: no
\* warning)
Interpretation(results) ==
    [score      |-> ToFixed(results.correctedScore, 4, TRUE),
     level      |-> Level(results.correctedScore),
     distortion |-> results.distortionType]

\* mutant of getInterpretation: the results are calculated on every call
getInterpretationFresh(this, up) ==
    LET calculated == calculateResults(this, up)
    IN  IF calculated.outcome.threw THEN calculated
        ELSE [this    |-> calculated.this,
              outcome |-> Return(Interpretation(calculated.this.results))]

getInterpretation(this, up) ==
    LET calculated == IF this.results = NoResults THEN calculateResults(this, up)
                      ELSE [this |-> this, outcome |-> Return(this.results)]
    IN  IF calculated.outcome.threw THEN calculated
        ELSE [this    |-> calculated.this,
              outcome |-> Return(Interpretation(calculated.this.results))]

\* the fields of the object literal are evaluated in order: results is read
\* before getInterpretation runs
exportToObject(this, up) ==
    LET results     == this.results
        interpreted == getInterpretation(this, up)
    IN  IF interpreted.outcome.threw THEN interpreted
        ELSE [this    |-> interpreted.this,
              outcome |-> Return([questions      |-> interpreted.this.questions,
                                  responses      |-> interpreted.this.responses,
                                  results        |-> results,
                                  interpretation |-> interpreted.outcome.value])]

reset(this) ==
    [this    |-> [this EXCEPT !.responses = <<>>, !.results = NoResults],
     outcome |-> Return(Undefined)]

(***************************************************************************)
(* The caller: pending calls and the outcomes of the calls made so far.    *)
(***************************************************************************)
Call(fn, arg) == [fn |-> fn, arg |-> arg]

\* the call the next step performs
Pending == args[Len(rets) + 1]

\* one call of calculatePsychologicalScore: its outcome is appended to rets
CalculateScore ==
    /\ Len(rets) < Len(args)
    /\ Pending.fn = "calculatePsychologicalScore"
    /\ \E up \in BOOLEAN : rets' = Append(rets, calculatePsychologicalScore(Pending.arg, up))
    /\ UNCHANGED <<args, options, categoryDifficultyIndices, test, logFile, logTests>>

\* one call of correctScoreBidirectional(answers, normalizedScore)
CorrectScoreBidirectional ==
    /\ Len(rets) < Len(args)
    /\ Pending.fn = "correctScoreBidirectional"
    /\ rets' = Append(rets, Return(correctScoreBidirectional(Pending.arg.answers,
                                                             Pending.arg.normalizedScore)))
    /\ UNCHANGED <<args, options, categoryDifficultyIndices, test, logFile, logTests>>

\* one call of corrector.correctMultiCategory
CorrectMultiCategory ==
    /\ Len(rets) < Len(args)
    /\ Pending.fn = "correctMultiCategory"
    /\ \E below \in BOOLEAN : rets' = Append(rets, correctMultiCategory(Pending.arg, below))
    /\ UNCHANGED <<args, options, categoryDifficultyIndices, test, logFile, logTests>>

\* one call of corrector.validateCategoryData
ValidateCategoryData ==
    /\ Len(rets) < Len(args)
    /\ Pending.fn = "validateCategoryData"
    /\ rets' = Append(rets, validateCategoryData(Pending.arg))
    /\ UNCHANGED <<args, options, categoryDifficultyIndices, test, logFile, logTests>>

\* one call of corrector.classifyResponseStyle
ClassifyResponseStyle ==
    /\ Len(rets) < Len(args)
    /\ Pending.fn = "classifyResponseStyle"
    /\ rets' = Append(rets, Return(classifyResponseStyle(Pending.arg)))
    /\ UNCHANGED <<args, options, categoryDifficultyIndices, test, logFile, logTests>>

\* a call of a method of the PsychologicalTest: the call and its outcome are
\* appended to args and rets, and the object becomes what the method left
Invoke(fn, arg, done) ==
    /\ Len(args) < MaxCalls
    /\ test' = done.this
    /\ args' = Append(args, Call(fn, arg))
    /\ rets' = Append(rets, done.outcome)
    /\ UNCHANGED <<options, categoryDifficultyIndices, logFile, logTests>>

\* the responses given to addResponse: valid ones, one out of range, one
\* that is no integer
ResponseValues == {Num(1), Num(5), Num(6), Half(2)}

\* the arguments given to setResponses: a valid list, lists whose first
\* invalid element is at index 0, 1 and 2, and null
ResponseArrays ==
    {Array(<<Num(1), Num(1)>>), Array(<<Half(2)>>), Array(<<Num(3), Num(6), Num(4)>>),
     Array(<<Num(5), Num(5), Str(3), Num(0)>>), NullResponses}

AddQuestion == Invoke("addQuestion", <<"q">>, addQuestion(test, <<"q">>))

AddResponse == \E response \in ResponseValues :
                   Invoke("addResponse", response, addResponse(test, response))

SetResponses == \E responses \in ResponseArrays :
                    Invoke("setResponses", responses, setResponses(test, responses))

CalculateResults == \E up \in BOOLEAN :
                        Invoke("calculateResults", Undefined, calculateResults(test, up))

GetInterpretation == \E up \in BOOLEAN :
                         Invoke("getInterpretation", Undefined, getInterpretation(test, up))

ExportToObject == \E up \in BOOLEAN :
                      Invoke("exportToObject", Undefined, exportToObject(test, up))

Reset == Invoke("reset", Undefined, reset(test))

\* a call of a method of a corrector other callers use too
Shared(fn, argument, outcome) ==
    LET after == AfterCall([options                   |-> options,
                            categoryDifficultyIndices |-> categoryDifficultyIndices], argument)
    IN  /\ Len(args) < MaxSharedCalls
        /\ options' = after.this.options
        /\ categoryDifficultyIndices' = after.this.categoryDifficultyIndices
        /\ args' = Append(args, Call(fn, after.argument))
        /\ rets' = Append(rets, outcome)
        /\ UNCHANGED <<test, logFile, logTests>>

(***************************************************************************)
(* The Express server (tutorial.md 600-699).  args are the bodies of the   *)
(* POST /api/calculate requests in order of arrival, rets the responses;   *)
(* logFile is test-logs.json and logTests[i] the logTest call of request   *)
(* i.  The timestamp of a request is its number.                           *)
(***************************************************************************)
\* test-logs.json does not exist
NoFile == [content |-> "none", logs |-> <<>>]

\* test-logs.json holding JSON.stringify(logs, null, 2)
Written(logs) == [content |-> "json", logs |-> logs]

\* the handler of POST /api/calculate: the response and the logTest call it
\* leaves behind, which has run up to its first await (pc "none": no call,
\* the request was answered 400)
postCalculate(body, timestamp, up) ==
    LET responses == body.responses
        result    == calculatePsychologicalScore(responses, up)
        NoLogTest == [pc |-> "none", testData |-> NullValue, logs |-> <<>>]
    IN  IF ~responses.isArray
        THEN [res |-> Throw("Responses must be an array"), logTest |-> NoLogTest]
        ELSE IF result.threw
        THEN [res |-> result, logTest |-> NoLogTest]
        ELSE [res     |-> result,
              logTest |-> [pc       |-> "readFile",
                           testData |-> [timestamp |-> timestamp,
                                         responses |-> responses,
                                         result    |-> result.value],
                           logs     |-> <<>>]]

\* logs.slice(-1000) if logs.length > 1000
KeepLast(logs) ==
    IF Len(logs) > 1000 THEN SubSeq(logs, Len(logs) - 999, Len(logs)) ELSE logs

\* the bodies of the requests: two valid lists, one missing and one empty
RequestBodies ==
    {[responses |-> r] : r \in {ArrayOfInts(<<5, 5, 5>>), ArrayOfInts(<<3, 4>>),
                                NullResponses, Array(<<>>)}}

PostCalculate ==
    /\ Len(args) < MaxRequests
    /\ \E body \in RequestBodies, up \in BOOLEAN :
           LET done == postCalculate(body, Len(args) + 1, up)
           IN  /\ args' = Append(args, Call("POST /api/calculate", body))
               /\ rets' = Append(rets, done.res)
               /\ logTests' = Append(logTests, done.logTest)
    /\ UNCHANGED <<options, categoryDifficultyIndices, test, logFile>>

\* logTest of request i resumes after await fs.readFile: it parses what it
\* read (or starts from [] when the file is missing or not JSON), pushes its
\* testData, keeps the last 1000 and calls fs.writeFile
ReadFile ==
    /\ \E i \in DOMAIN logTests :
           /\ logTests[i].pc = "readFile"
           /\ LET logs == IF logFile.content = "json" THEN logFile.logs ELSE <<>>
              IN  logTests' = [logTests EXCEPT
                                  ![i].logs = KeepLast(Append(logs, logTests[i].testData)),
                                  ![i].pc   = "open"]
    /\ UNCHANGED <<args, rets, options, categoryDifficultyIndices, test, logFile>>

\* fs.writeFile of request i opens the file, which empties it: until the
\* data is written JSON.parse rejects its content
OpenFile ==
    /\ \E i \in DOMAIN logTests :
           /\ logTests[i].pc = "open"
           /\ logFile' = [content |-> "empty", logs |-> <<>>]
           /\ logTests' = [logTests EXCEPT ![i].pc = "write"]
    /\ UNCHANGED <<args, rets, options, categoryDifficultyIndices, test>>

\* fs.writeFile of request i writes its data and logTest returns
WriteFile ==
    /\ \E i \in DOMAIN logTests :
           /\ logTests[i].pc = "write"
           /\ logFile' = Written(logTests[i].logs)
           /\ logTests' = [logTests EXCEPT ![i].pc = "done"]
    /\ UNCHANGED <<args, rets, options, categoryDifficultyIndices, test>>

(***************************************************************************)
(* Inputs.                                                                 *)
(***************************************************************************)
Rep(v, k) == [i \in 1..k |-> v]

\* the sum of a list of integers
RECURSIVE SumOf(_)
SumOf(s) == IF s = <<>> THEN 0 ELSE Head(s) + SumOf(Tail(s))

\* the lists of n responses in 1..5 in non-decreasing order (one per multiset)
SortedLists(n) ==
    UNION { UNION { UNION { { Rep(1, a) \o Rep(2, b) \o Rep(3, c) \o Rep(4, d) \o Rep(5, n - a - b - c - d)
                              : d \in 0..(n - a - b - c) }
                            : c \in 0..(n - a - b) }
                    : b \in 0..(n - a) }
            : a \in 0..n }

\* every list of n responses in 1..5
AllLists(n) == [1..n -> 1..5]

\* the response lists of the tutorial's tests (tutorial.md 788, 797, 807, 816)
TestLists == { <<3, 3, 3, 3, 3, 3, 3, 3, 3, 3>>,
               <<5, 5, 5, 5, 5, 5, 5, 3, 2, 4>>,
               <<1, 1, 1, 1, 1, 1, 1, 3, 4, 2>>,
               <<1, 1, 1, 1, 5, 5, 5, 5, 5, 5>> }

\* the valid inputs: non-empty arrays of integers in 1..5
ValidInput(x) ==
    /\ x.isArray
    /\ Len(x.elems) > 0
    /\ \A i \in DOMAIN x.elems : x.elems[i] \in {Num(k) : k \in 1..5}

\* elements of the inputs that hold an invalid element
Elements == {Num(k) : k \in 0..6} \cup {Half(2), Str(3)}

InvalidInputs ==
    {NotAnArray, Array(<<>>)} \cup
    {x \in UNION {{Array(e) : e \in [1..n -> Elements]} : n \in 1..MaxBadLen} : ~ValidInput(x)}

ScoreInputs ==
    {ArrayOfInts(s) : s \in UNION {SortedLists(n) : n \in 1..MaxLen} \cup TestLists} \cup InvalidInputs

InitScore ==
    /\ args \in {<<Call("calculatePsychologicalScore", x)>> : x \in ScoreInputs}
    /\ rets = <<>>
    /\ options = Constructor(<<>>)
    /\ categoryDifficultyIndices = DefaultDifficultyIndices
    /\ test = PsychologicalTest(<<>>)
    /\ logFile = NoFile
    /\ logTests = <<>>

NextScore == CalculateScore

SpecScore == InitScore /\ [][NextScore]_vars

\* SpecPerm: one call on any list of at most MaxPermLen responses, in any order
InitPerm ==
    /\ args \in {<<Call("calculatePsychologicalScore", ArrayOfInts(s))>> :
                    s \in UNION {AllLists(n) : n \in 1..MaxPermLen}}
    /\ rets = <<>>
    /\ options = Constructor(<<>>)
    /\ categoryDifficultyIndices = DefaultDifficultyIndices
    /\ test = PsychologicalTest(<<>>)
    /\ logFile = NoFile
    /\ logTests = <<>>

NextPerm == CalculateScore

SpecPerm == InitPerm /\ [][NextPerm]_vars

\* the sorted lists of n responses of which at least 70% are fives, or at
\* least 70% are ones: the lists on which a correction is applied
ExtremeLists(n) ==
    {s \in SortedLists(n) :
        \/ 10 * Cardinality({i \in 1..n : s[i] = 5}) >= 7 * n
        \/ 10 * Cardinality({i \in 1..n : s[i] = 1}) >= 7 * n}

\* SpecPair: two calls, on two such lists of one length
InitPair ==
    /\ args \in UNION {{<<Call("calculatePsychologicalScore", ArrayOfInts(s)),
                           Call("calculatePsychologicalScore", ArrayOfInts(t))>> :
                            s \in ExtremeLists(n), t \in ExtremeLists(n)} : n \in 1..MaxPairLen}
    /\ rets = <<>>
    /\ options = Constructor(<<>>)
    /\ categoryDifficultyIndices = DefaultDifficultyIndices
    /\ test = PsychologicalTest(<<>>)
    /\ logFile = NoFile
    /\ logTests = <<>>

NextPair == CalculateScore

SpecPair == InitPair /\ [][NextPair]_vars

\* the category ids of the inputs: one that holds a table key, one that is a
\* table key, one that matches no key, one that is a key once normalized
CategoryIds == << <<"T", "e", "a", "m", " ", "L", "e", "a", "d", "e", "r", "s", "h", "i", "p">>,
                  <<"t", "e", "c", "h", "n", "i", "c", "a", "l", "_", "s", "k", "i", "l", "l", "s">>,
                  <<"c", "a", "t", "1">>,
                  <<"P", "r", "o", "b", "l", "e", "m", "-", "S", "o", "l", "v", "i", "n", "g">> >>

RECURSIVE SetToSeq(_)
\* the elements of a set of integers in increasing order
SetToSeq(S) ==
    IF S = {} THEN <<>>
    ELSE LET m == CHOOSE x \in S : \A y \in S : x <= y IN <<m>> \o SetToSeq(S \ {m})

\* the object that gives the categories numbered ord[1], ord[2], ... the
\* responses values[1], values[2], ...
CategoryMap(ord, values) ==
    Object([i \in DOMAIN ord |-> [key |-> CategoryIds[ord[i]], value |-> values[i]]])

\* the valid category maps: non-empty, every category a valid list
ValidMap(x) ==
    /\ x.isObject
    /\ Len(x.entries) > 0
    /\ \A i \in DOMAIN x.entries : ValidInput(x.entries[i].value)

\* the numbers of questions of k categories: MaxTotalQuestions at most in all
Lengths(k) ==
    {l \in [1..k -> 1..MaxTotalQuestions] : SumOf(l) <= MaxTotalQuestions}

RECURSIVE ResponseTuples(_)
\* the sorted response lists of the given lengths, one per category
ResponseTuples(lens) ==
    IF lens = <<>> THEN {<<>>}
    ELSE {<<ArrayOfInts(a)>> \o t : a \in SortedLists(Head(lens)), t \in ResponseTuples(Tail(lens))}

\* response lists for the maps that hold an invalid category
BadLists ==
    {NullResponses, Array(<<>>)} \cup
    UNION {{Array(e) : e \in [1..n -> {Num(0), Num(3), Num(6), Half(2)}]} : n \in 1..MaxBadLen}

InvalidMaps ==
    {Null, Object(<<>>)} \cup
    {x \in UNION {{CategoryMap(SetToSeq(S), f) : f \in [1..Cardinality(S) -> BadLists]}
                  : S \in (SUBSET {1, 2}) \ {{}}} :
        ~ValidMap(x)}

\* SpecMulti: one call of a method of a corrector built without options
InitMulti ==
    /\ rets = <<>>
    /\ options = Constructor(<<>>)
    /\ categoryDifficultyIndices = DefaultDifficultyIndices
    /\ test = PsychologicalTest(<<>>)
    /\ logFile = NoFile
    /\ logTests = <<>>
    /\ \E fn \in {"correctMultiCategory", "validateCategoryData"} :
           \/ \E S \in (SUBSET {1, 2, 3}) \ {{}} :
                  \E l \in Lengths(Cardinality(S)) :
                      \E t \in ResponseTuples(l) :
                          args = <<Call(fn, CategoryMap(SetToSeq(S), t))>>
           \/ \E x \in InvalidMaps : args = <<Call(fn, x)>>

NextMulti == CorrectMultiCategory \/ ValidateCategoryData

SpecMulti == InitMulti /\ [][NextMulti]_vars

\* the shares of fives and of ones, the means and the variances of the
\* statistics handed to classifyResponseStyle: values on, next to and away
\* from each threshold it tests
StyleShares == {Rat(0, 1), Rat(5, 100), Rat(1, 10), Rat(3, 10), Rat(4, 10), Rat(6, 10)}

StyleMeans == {Rat(21, 10), Rat(22, 10), Rat(3, 1), Rat(41, 10), Rat(42, 10)}

StyleVariances == {Rat(0, 1), Rat(14, 10), Rat(15, 10), Rat(2, 1)}

\* SpecClassify: one call of classifyResponseStyle on such statistics
InitClassify ==
    /\ rets = <<>>
    /\ options = Constructor(<<>>)
    /\ categoryDifficultyIndices = DefaultDifficultyIndices
    /\ test = PsychologicalTest(<<>>)
    /\ logFile = NoFile
    /\ logTests = <<>>
    /\ \E p5 \in StyleShares, p1 \in StyleShares, mean \in StyleMeans, var \in StyleVariances :
           /\ RatLE(RatAdd(p5, p1), Rat(1, 1))
           /\ args = <<Call("classifyResponseStyle",
                            [responses5Percent |-> p5, responses1Percent |-> p1,
                             globalMean |-> mean, variance |-> var])>>

NextClassify == ClassifyResponseStyle

SpecClassify == InitClassify /\ [][NextClassify]_vars

\* SpecFour: one call of correctMultiCategory on a valid map of four
\* categories (with three or fewer, no category lies 1.5 standard deviations
\* from the mean of the category scores)
InitFour ==
    /\ rets = <<>>
    /\ options = Constructor(<<>>)
    /\ categoryDifficultyIndices = DefaultDifficultyIndices
    /\ test = PsychologicalTest(<<>>)
    /\ logFile = NoFile
    /\ logTests = <<>>
    /\ \E l \in Lengths(4) :
           \E t \in ResponseTuples(l) :
               args = <<Call("correctMultiCategory", CategoryMap(<<1, 2, 3, 4>>, t))>>

NextFour == CorrectMultiCategory

SpecFour == InitFour /\ [][NextFour]_vars

\* the input and the outcome of the i-th call
\* SpecRank: one call of correctMultiCategory on the two categories
\* 'Team Leadership' and 'technical_skills', each with a sorted list of at
\* most MaxRankLen responses
InitRank ==
    /\ rets = <<>>
    /\ options = Constructor(<<>>)
    /\ categoryDifficultyIndices = DefaultDifficultyIndices
    /\ test = PsychologicalTest(<<>>)
    /\ logFile = NoFile
    /\ logTests = <<>>
    /\ \E n \in 1..MaxRankLen, m \in 1..MaxRankLen :
           \E a \in SortedLists(n), b \in SortedLists(m) :
               args = <<Call("correctMultiCategory",
                             CategoryMap(<<1, 2>>, <<ArrayOfInts(a), ArrayOfInts(b)>>))>>

NextRank == CorrectMultiCategory

SpecRank == InitRank /\ [][NextRank]_vars

\* the values given for maxGlobalAdjustment and maxRelativeAdjustment at
\* construction: below, at and above the defaults
GlobalAdjustments == {Rat(1, 100), Rat(3, 10), Rat(1, 2)}

RelativeAdjustments == {Rat(5, 100), Rat(15, 100), Rat(3, 10)}

\* the numbers of questions of k categories of a configured corrector
OptionLengths(k) ==
    {l \in [1..k -> 1..MaxOptionQuestions] : SumOf(l) <= MaxOptionQuestions}

\* SpecOptions: one call of correctMultiCategory on a corrector constructed
\* with the options maxGlobalAdjustment and maxRelativeAdjustment
InitOptions ==
    /\ rets = <<>>
    /\ \E m \in GlobalAdjustments, r \in RelativeAdjustments :
           options = Constructor([maxGlobalAdjustment |-> m, maxRelativeAdjustment |-> r])
    /\ categoryDifficultyIndices = DefaultDifficultyIndices
    /\ test = PsychologicalTest(<<>>)
    /\ logFile = NoFile
    /\ logTests = <<>>
    /\ \E S \in (SUBSET {1, 2}) \ {{}} :
           \E l \in OptionLengths(Cardinality(S)) :
               \E t \in ResponseTuples(l) :
                   args = <<Call("correctMultiCategory", CategoryMap(SetToSeq(S), t))>>

NextOptions == CorrectMultiCategory

SpecOptions == InitOptions /\ [][NextOptions]_vars

\* SpecStyle: one call of correctMultiCategory on a single category ('cat1')
\* with a sorted list of at most MaxStyleLen responses: the response style
\* depends on the responses of all categories together
InitStyle ==
    /\ rets = <<>>
    /\ options = Constructor(<<>>)
    /\ categoryDifficultyIndices = DefaultDifficultyIndices
    /\ test = PsychologicalTest(<<>>)
    /\ logFile = NoFile
    /\ logTests = <<>>
    /\ \E n \in 1..MaxStyleLen :
           \E a \in SortedLists(n) :
               args = <<Call("correctMultiCategory", CategoryMap(<<3>>, <<ArrayOfInts(a)>>))>>

NextStyle == CorrectMultiCategory

SpecStyle == InitStyle /\ [][NextStyle]_vars

\* SpecBoth: the same valid list (sorted, at most MaxBothLen responses) given
\* to calculatePsychologicalScore and then, with its normalized score, to
\* correctScoreBidirectional
InitBoth ==
    /\ rets = <<>>
    /\ options = Constructor(<<>>)
    /\ categoryDifficultyIndices = DefaultDifficultyIndices
    /\ test = PsychologicalTest(<<>>)
    /\ logFile = NoFile
    /\ logTests = <<>>
    /\ \E n \in 1..MaxBothLen :
           \E a \in SortedLists(n) :
               args = <<Call("calculatePsychologicalScore", ArrayOfInts(a)),
                        Call("correctScoreBidirectional",
                             [answers         |-> ArrayOfInts(a),
                              normalizedScore |-> NormalizedScore(SumOf(a), n, 5 * n)])>>

NextBoth == CalculateScore \/ CorrectScoreBidirectional

SpecBoth == InitBoth /\ [][NextBoth]_vars

\* SpecTest: at most MaxCalls calls, in any order, on a PsychologicalTest
\* constructed without questions
InitTest ==
    /\ args = <<>>
    /\ rets = <<>>
    /\ options = Constructor(<<>>)
    /\ categoryDifficultyIndices = DefaultDifficultyIndices
    /\ test = PsychologicalTest(<<>>)
    /\ logFile = NoFile
    /\ logTests = <<>>

NextTest ==
    \/ AddQuestion
    \/ AddResponse
    \/ SetResponses
    \/ CalculateResults
    \/ GetInterpretation
    \/ ExportToObject
    \/ Reset

SpecTest == InitTest /\ [][NextTest]_vars

\* the maps given to the shared corrector: 'Team Leadership' and
\* 'technical_skills' with one response each
SharedMaps ==
    {CategoryMap(<<1, 2>>, <<ArrayOfInts(<<a>>), ArrayOfInts(<<b>>)>>) : a, b \in {1, 3, 5}}

CorrectShared ==
    \E categoryData \in SharedMaps, below \in BOOLEAN :
        Shared("correctMultiCategory", categoryData, correctMultiCategory(categoryData, below))

\* generateReport on the results of any earlier correctMultiCategory call
ReportShared ==
    \E i \in DOMAIN rets, up \in BOOLEAN :
        /\ args[i].fn = "correctMultiCategory"
        /\ Shared("generateReport", rets[i].value, Return(generateReport(rets[i].value, up)))

\* SpecShared: at most MaxSharedCalls invocations, in any order, of
\* correctMultiCategory and generateReport on one corrector
InitShared ==
    /\ args = <<>>
    /\ rets = <<>>
    /\ options = Constructor(<<>>)
    /\ categoryDifficultyIndices = DefaultDifficultyIndices
    /\ test = PsychologicalTest(<<>>)
    /\ logFile = NoFile
    /\ logTests = <<>>

NextShared == CorrectShared \/ ReportShared

SpecShared == InitShared /\ [][NextShared]_vars

\* SpecServer: at most MaxRequests requests to POST /api/calculate; the log
\* file is missing, holds [] or holds ExistingTests tests logged before the
\* server started (timestamp 0)
InitServer ==
    LET ExistingTest ==
            [timestamp |-> 0,
             responses |-> ArrayOfInts(<<3>>),
             result    |-> calculatePsychologicalScore(ArrayOfInts(<<3>>), TRUE).value]
    IN
    /\ args = <<>>
    /\ rets = <<>>
    /\ options = Constructor(<<>>)
    /\ categoryDifficultyIndices = DefaultDifficultyIndices
    /\ test = PsychologicalTest(<<>>)
    /\ logFile \in {NoFile, Written(<<>>), Written([k \in 1..ExistingTests |-> ExistingTest])}
    /\ logTests = <<>>

NextServer == PostCalculate \/ ReadFile \/ OpenFile \/ WriteFile

SpecServer == InitServer /\ [][NextServer]_vars

Arg(i) == args[i].arg

Ret(i) == rets[i]

Done(i) == Len(rets) >= i

(***************************************************************************)
(* What the claims say about an input, computed from the input alone.      *)
(***************************************************************************)
\* the responses of a valid input as integers
Ints(x) == [i \in DOMAIN x.elems |-> x.elems[i].n]

CountOf(s, v) == Cardinality({i \in DOMAIN s : s[i] = v})

\* t = ceil(0.7 * n): the least integer t with t >= 7n/10
IsCeil70(t, n) == 10 * t >= 7 * n /\ 10 * (t - 1) < 7 * n

\* the i-th call was made on a valid input and returned
Scored(i) == Done(i) /\ ValidInput(Arg(i)) /\ ~Ret(i).threw

\* the value r (with four decimals) is num/den rounded to four decimals
IsRounded4(r, num, den) == r.d = 10000 /\ 2 * Abs(r.n * den - num * 10000) <= den

(***************************************************************************)
(* Claims on one call: C2 and C4 under SpecMulti, the others under         *)
(* SpecScore.                                                              *)
(***************************************************************************)
\* C1: every call on a non-empty list of integers in 1..5 returns, and the
\* correctedScore it returns satisfies 1.0001 <= correctedScore <= 5.0,
\* whatever distortionType is detected.
C1_Range ==
    \A i \in 1..Len(rets) :
        ValidInput(Arg(i)) =>
            /\ ~Ret(i).threw
            /\ RatLE(Rat(10001, 10000), Ret(i).value.correctedScore)
            /\ RatLE(Ret(i).value.correctedScore, RatOfInt(5))

\* a ten-question list of ones only was scored: low distortion, boosted to 1.3
C1_Witness ==
    /\ Scored(1)
    /\ Ints(Arg(1)) = Rep(1, 10)
    /\ Ret(1).value.distortionType = "low"
    /\ Ret(1).value.correctedScore = Rat(13000, 10000)

\* the i-th call was correctMultiCategory on a valid category map
Corrected(i) == Done(i) /\ args[i].fn = "correctMultiCategory" /\ ValidMap(Arg(i))

\* C2: with the default configuration, correctMultiCategory on a valid
\* category map (non-empty, every category a non-empty list of integers in
\* 1..5) returns, for every category of the map, a correctedScore with
\* 1.01 <= correctedScore <= 5.0, whatever the response style and whether or
\* not the zero-variance correction applies.
C2_MultiRange ==
    \A i \in 1..Len(rets) :
        Corrected(i) =>
            /\ ~Ret(i).threw
            /\ ObjectKeys(Ret(i).value.correctedCategories) = ObjectKeys(Arg(i))
            /\ \A k \in DOMAIN Ret(i).value.correctedCategories.entries :
                   LET c == Ret(i).value.correctedCategories.entries[k].value.correctedScore
                   IN  RatLE(Rat(101, 100), c) /\ RatLE(c, Rat(5, 1))

\* a balanced map with a category of mean 1, whose product 1 * 1 * 1 the
\* lower bound lifts to 1.01
C2_Witness ==
    /\ Corrected(1)
    /\ ~Ret(1).threw
    /\ Ret(1).value.responseStyle = "balanced"
    /\ \E k \in DOMAIN Ret(1).value.correctedCategories.entries :
           LET e == Ret(1).value.correctedCategories.entries[k].value
           IN  e.originalScore = Rat(1, 1) /\ e.correctedScore = Rat(101, 100)

\* C3: the call throws, and yields nothing but the error, exactly when its
\* input is not an array, is empty, or holds an element that is not an
\* integer in 1..5; on a non-empty list of integers in 1..5 it never throws.
C3_Validation ==
    \A i \in 1..Len(rets) :
        /\ Ret(i).threw <=> ~ValidInput(Arg(i))
        /\ Ret(i).threw => DOMAIN Ret(i) = {"threw", "error"}

\* the call on [2.5, 3] threw
C3_Witness ==
    /\ Done(1)
    /\ Arg(1) = Array(<<Half(2), Num(3)>>)
    /\ Ret(1).threw

\* an input the contract rejects: an empty map, or a map with a category
\* whose list is empty or holds a response that is not an integer in 1..5
Rejected(x) ==
    /\ x.isObject
    /\ \A k \in DOMAIN x.entries : x.entries[k].value.isArray
    /\ \/ Len(x.entries) = 0
       \/ \E k \in DOMAIN x.entries : ~ValidInput(x.entries[k].value)

\* C4: correctMultiCategory fails with an error, and returns no correction
\* batch, when given an empty map, a category whose response list is empty,
\* or any response that is not an integer in 1..5.
C4_AsStated ==
    \A i \in 1..Len(rets) :
        (args[i].fn = "correctMultiCategory" /\ Rejected(Arg(i))) => Ret(i).threw

C6_FixedPoint ==
    \A i \in 1..Len(rets) :
        Scored(i) =>
            LET n  == Len(Arg(i).elems)
                c5 == CountOf(Ints(Arg(i)), 5)
                c1 == CountOf(Ints(Arg(i)), 1)
            IN  (\A t \in 0..n : IsCeil70(t, n) /\ c5 < t /\ c1 < t =>
                    Ret(i).value.correctedScore = Ret(i).value.normalizedScore)

\* the test's ten threes were scored: normalizedScore 3 = correctedScore
C6_Witness ==
    /\ Scored(1)
    /\ Ints(Arg(1)) = Rep(3, 10)
    /\ Ret(1).value.distortionType = "none"
    /\ Ret(1).value.normalizedScore = Rat(30000, 10000)
    /\ Ret(1).value.correctedScore = Rat(30000, 10000)

\* C7 as stated: with 'high', correctedScore = normalizedScore * (1 - 0.3*count5/N)
\* and correctedScore < normalizedScore; with 'low', correctedScore =
\* normalizedScore * (1 + 0.3*count1/N) and correctedScore > normalizedScore
\* (both scores are returned in ten-thousandths).
C7_AsStated ==
    \A i \in 1..Len(rets) :
        Scored(i) =>
            LET n  == Len(Arg(i).elems)
                c5 == CountOf(Ints(Arg(i)), 5)
                c1 == CountOf(Ints(Arg(i)), 1)
                r  == Ret(i).value
            IN  /\ r.distortionType = "high" =>
                     /\ r.correctedScore.n * (10 * n) = r.normalizedScore.n * (10 * n - 3 * c5)
                     /\ RatLT(r.correctedScore, r.normalizedScore)
                /\ r.distortionType = "low" =>
                     /\ r.correctedScore.n * (10 * n) = r.normalizedScore.n * (10 * n + 3 * c1)
                     /\ RatLT(r.normalizedScore, r.correctedScore)

\* C7 (amended): with 'high', correctedScore is mean * (1 - 0.3*count5/N)
\* rounded to four decimals and is strictly less than normalizedScore; with
\* 'low', correctedScore is mean * (1 + 0.3*count1/N) rounded to four
\* decimals and is strictly greater than normalizedScore (mean = sum/N).
C7_Direction ==
    \A i \in 1..Len(rets) :
        Scored(i) =>
            LET n  == Len(Arg(i).elems)
                s  == SumOf(Ints(Arg(i)))
                c5 == CountOf(Ints(Arg(i)), 5)
                c1 == CountOf(Ints(Arg(i)), 1)
                r  == Ret(i).value
            IN  /\ r.distortionType = "high" =>
                     /\ IsRounded4(r.correctedScore, s * (10 * n - 3 * c5), 10 * n * n)
                     /\ RatLT(r.correctedScore, r.normalizedScore)
                /\ r.distortionType = "low" =>
                     /\ IsRounded4(r.correctedScore, s * (10 * n + 3 * c1), 10 * n * n)
                     /\ RatLT(r.normalizedScore, r.correctedScore)

\* [4,5,5,5] was scored 'high': 4.75 * 0.775 = 3.68125 is returned with four decimals
C7_Witness ==
    /\ Scored(1)
    /\ Ints(Arg(1)) = <<4, 5, 5, 5>>
    /\ Ret(1).value.distortionType = "high"
    /\ Ret(1).value.normalizedScore = Rat(47500, 10000)
    /\ Ret(1).value.correctedScore \in {Rat(36812, 10000), Rat(36813, 10000)}

\* C8 as stated: the returned normalizedScore is the arithmetic mean sum/N.
C8_AsStated ==
    \A i \in 1..Len(rets) :
        Scored(i) =>
            RatEQ(Ret(i).value.normalizedScore, Rat(SumOf(Ints(Arg(i))), Len(Arg(i).elems)))

\* C8 (amended): the returned normalizedScore is the arithmetic mean sum/N
\* rounded to four decimals.
C8_RoundedMean ==
    \A i \in 1..Len(rets) :
        Scored(i) =>
            IsRounded4(Ret(i).value.normalizedScore, SumOf(Ints(Arg(i))), Len(Arg(i).elems))

\* [1,1,2] was scored: the mean 4/3 is returned as 1.3333
C8_Witness ==
    /\ Scored(1)
    /\ Ints(Arg(1)) = <<1, 1, 2>>
    /\ Ret(1).value.normalizedScore = Rat(13333, 10000)

(***************************************************************************)
(* Order independence, under SpecPerm.                                     *)
(***************************************************************************)
\* the list s rearranged by the permutation p of its indices
Permuted(s, p) == [i \in DOMAIN s |-> s[p[i]]]

\* normalizedScore, distortionType and correctedScore of a returned result
Scores(r) == <<r.value.normalizedScore, r.value.distortionType, r.value.correctedScore>>

\* C9: order independence: the call on any permutation of a valid list
\* returns the same normalizedScore, distortionType and correctedScore as
\* the call on the list itself (the double arithmetic being the same, the
\* rounding direction up is the same in both calls).
C9_OrderIndependent ==
    \A i \in 1..Len(rets) :
        Scored(i) =>
            \E up \in BOOLEAN :
                /\ Ret(i) = calculatePsychologicalScore(Arg(i), up)
                /\ \A p \in Permutations(DOMAIN Arg(i).elems) :
                       LET other == calculatePsychologicalScore(Array(Permuted(Arg(i).elems, p)), up)
                       IN  ~other.threw /\ Scores(other) = Scores(Ret(i))

\* [5,4,5,5] was scored 'high'; [4,5,5,5] and [5,5,5,4] are permutations of it
C9_Witness ==
    /\ Scored(1)
    /\ Ints(Arg(1)) = <<5, 4, 5, 5>>
    /\ Ret(1).value.distortionType = "high"
    /\ Ret(1).value.normalizedScore = Rat(47500, 10000)

(***************************************************************************)
(* Monotonicity, under SpecPair: x is the first list, y the second.        *)
(***************************************************************************)
\* y is x with some responses other than v replaced by v
Raises(x, y, v) ==
    /\ Len(x) = Len(y)
    /\ CountOf(y, v) > CountOf(x, v)
    /\ \A w \in (1..5) \ {v} : CountOf(y, w) <= CountOf(x, w)

\* C10 as stated: among lists of one length with count5 at or above the
\* threshold, replacing other responses by fives never increases
\* correctedScore; among lists with count1 at or above the threshold,
\* replacing other responses by ones never decreases correctedScore.
C10_AsStated ==
    (Scored(1) /\ Scored(2)) =>
        LET x == Ints(Arg(1))
            y == Ints(Arg(2))
            t == Ret(1).value.threshold
        IN  /\ (Raises(x, y, 5) /\ CountOf(x, 5) >= t) =>
                    RatLE(Ret(2).value.correctedScore, Ret(1).value.correctedScore)
            /\ (Raises(x, y, 1) /\ CountOf(x, 1) >= t) =>
                    RatLE(Ret(1).value.correctedScore, Ret(2).value.correctedScore)

\* C10 (amended): among lists of one length and one sum (one normalizedScore)
\* with count5 at or above the threshold, a list with more fives never has
\* the larger correctedScore; with count1 at or above the threshold, a list
\* with more ones never has the smaller correctedScore.
C10_Monotonic ==
    (Scored(1) /\ Scored(2)) =>
        LET x == Ints(Arg(1))
            y == Ints(Arg(2))
            t == Ret(1).value.threshold
        IN  (Len(x) = Len(y) /\ SumOf(x) = SumOf(y)) =>
                /\ (CountOf(x, 5) >= t /\ CountOf(y, 5) > CountOf(x, 5)) =>
                        RatLE(Ret(2).value.correctedScore, Ret(1).value.correctedScore)
                /\ (CountOf(x, 1) >= t /\ CountOf(y, 1) > CountOf(x, 1)) =>
                        RatLE(Ret(1).value.correctedScore, Ret(2).value.correctedScore)

\* [3,3,5,5,5,5,5] and [1,5,5,5,5,5,5] (sum 31 both) were scored 'high':
\* six fives give the smaller correctedScore
C10_Witness ==
    /\ Scored(1) /\ Scored(2)
    /\ Ints(Arg(1)) = <<3, 3, 5, 5, 5, 5, 5>>
    /\ Ints(Arg(2)) = <<1, 5, 5, 5, 5, 5, 5>>
    /\ Ret(1).value.distortionType = "high"
    /\ Ret(2).value.distortionType = "high"
    /\ RatLT(Ret(2).value.correctedScore, Ret(1).value.correctedScore)

(***************************************************************************)
(* Claims on the steps of the multi-category correction.                   *)
(***************************************************************************)
\* C11 (under SpecClassify): classifyResponseStyle returns the first style
\* that matches, in the order high_acquiescence (p5 >= 0.4 or mean >= 4.2),
\* low_acquiescence (p1 >= 0.4 or mean <= 2.2), extreme_style (p5 + p1 >= 0.6
\* and variance < 1.5), central_tendency (p5 < 0.1 and p1 < 0.1), else
\* balanced; statistics that meet the high and the low condition are
\* classified high_acquiescence.
C11_FirstMatch ==
    \A i \in 1..Len(rets) :
        args[i].fn = "classifyResponseStyle" =>
            LET p5      == Arg(i).responses5Percent
                p1      == Arg(i).responses1Percent
                mean    == Arg(i).globalMean
                high    == RatLE(Rat(4, 10), p5) \/ RatLE(Rat(42, 10), mean)
                low     == RatLE(Rat(4, 10), p1) \/ RatLE(mean, Rat(22, 10))
                extreme == RatLE(Rat(6, 10), RatAdd(p5, p1)) /\ RatLT(Arg(i).variance, Rat(15, 10))
                central == RatLT(p5, Rat(1, 10)) /\ RatLT(p1, Rat(1, 10))
                style   == Ret(i).value
            IN  /\ ~Ret(i).threw
                /\ high => style = "high_acquiescence"
                /\ (~high /\ low) => style = "low_acquiescence"
                /\ (~high /\ ~low /\ extreme) => style = "extreme_style"
                /\ (~high /\ ~low /\ ~extreme /\ central) => style = "central_tendency"
                /\ (~high /\ ~low /\ ~extreme /\ ~central) => style = "balanced"

\* statistics with 40% fives and 40% ones were classified high_acquiescence
C11_Witness ==
    /\ Done(1)
    /\ args[1].fn = "classifyResponseStyle"
    /\ Arg(1).responses5Percent = Rat(4, 10)
    /\ Arg(1).responses1Percent = Rat(4, 10)
    /\ Ret(1).value = "high_acquiescence"


\* C12 (under SpecFour): for every valid category map, whatever the response
\* style, globalFactor lies in [0.7, 1.3] and every category's relativeFactor
\* lies in [0.85, 1.15]; when the zero-variance correction applies the
\* relativeFactor lies in [0.92, 1.08].
C12_FactorBounds ==
    \A i \in 1..Len(rets) :
        Corrected(i) =>
            /\ ~Ret(i).threw
            /\ RatLE(Rat(7, 10), Ret(i).value.metadata.globalFactor)
            /\ RatLE(Ret(i).value.metadata.globalFactor, Rat(13, 10))
            /\ \A k \in DOMAIN Ret(i).value.correctedCategories.entries :
                   LET e == Ret(i).value.correctedCategories.entries[k].value
                   IN  /\ e.globalFactor = Ret(i).value.metadata.globalFactor
                       /\ RatLE(Rat(85, 100), e.relativeFactor)
                       /\ RatLE(e.relativeFactor, Rat(115, 100))
                       /\ e.zeroVarianceCorrection =>
                              /\ RatLE(Rat(92, 100), e.relativeFactor)
                              /\ RatLE(e.relativeFactor, Rat(108, 100))

\* four categories with the means 4, 2, 2, 2 (central_tendency): the first
\* lies 1.73 standard deviations above the mean and its factor 1.173 is cut
\* to 1.15
C12_Witness ==
    /\ Corrected(1)
    /\ ~Ret(1).threw
    /\ Ret(1).value.responseStyle = "central_tendency"
    /\ Len(Ret(1).value.correctedCategories.entries) = 4
    /\ LET e == Ret(1).value.correctedCategories.entries[1].value
       IN  /\ e.originalScore = Rat(4, 1)
           /\ RatLT(Rat(15, 10), e.position.relativeDistance)
           /\ e.relativeFactor = Rat(115, 100)


\* the corrected categories of the i-th call, and their number
Categories(i) == Ret(i).value.correctedCategories.entries

\* the i-th call was correctMultiCategory on a valid map whose categories
\* all have the same mean
SameMeans(i) ==
    /\ Corrected(i)
    /\ ~Ret(i).threw
    /\ \A k, m \in DOMAIN Categories(i) :
           RatEQ(Categories(i)[k].value.originalScore, Categories(i)[m].value.originalScore)

\* C13 (under SpecMulti): zero-variance differentiation: when all categories
\* have the same mean, the zero-variance correction applies and each
\* category's relativeFactor is 1 - CDI * 0.08; the corrected scores are not
\* all equal whenever two categories have different CDI values; a category
\* with CDI 0.15 ends strictly below a category with CDI -0.10.
C13_ZeroVariance ==
    \A i \in 1..Len(rets) :
        SameMeans(i) =>
            /\ \A k \in DOMAIN Categories(i) :
                   LET e == Categories(i)[k].value
                   IN  /\ e.zeroVarianceCorrection
                       /\ RatEQ(e.relativeFactor,
                                RatSub(Rat(1, 1), RatMul(e.categoryDifficultyIndex, Rat(8, 100))))
            /\ (\E k, m \in DOMAIN Categories(i) :
                    ~RatEQ(Categories(i)[k].value.categoryDifficultyIndex,
                           Categories(i)[m].value.categoryDifficultyIndex))
               => (\E k, m \in DOMAIN Categories(i) :
                    ~RatEQ(Categories(i)[k].value.correctedScore,
                           Categories(i)[m].value.correctedScore))
            /\ \A k, m \in DOMAIN Categories(i) :
                   (/\ RatEQ(Categories(i)[k].value.categoryDifficultyIndex, Rat(15, 100))
                    /\ RatEQ(Categories(i)[m].value.categoryDifficultyIndex, Rat(-10, 100)))
                   => RatLT(Categories(i)[k].value.correctedScore,
                            Categories(i)[m].value.correctedScore)

\* 'Team Leadership' (CDI 0.15) and 'technical_skills' (CDI -0.10), both of
\* mean 5: factors 0.988 and 1.008, the first ends below the second
C13_Witness ==
    /\ SameMeans(1)
    /\ Len(Categories(1)) = 2
    /\ Categories(1)[1].value.originalScore = Rat(5, 1)
    /\ Categories(1)[1].value.categoryDifficultyIndex = Rat(15, 100)
    /\ Categories(1)[2].value.categoryDifficultyIndex = Rat(-10, 100)
    /\ Categories(1)[1].value.relativeFactor = Rat(247, 250)
    /\ Categories(1)[2].value.relativeFactor = Rat(126, 125)
    /\ RatLT(Categories(1)[1].value.correctedScore, Categories(1)[2].value.correctedScore)


\* C14: rank preservation: in every result of correctMultiCategory, a
\* category with a strictly higher originalScore than another never has a
\* lower correctedScore than it. (Refuted: with close means the zero-variance
\* correction orders the categories by their difficulty index.)
C14_AsStated ==
    \A i \in 1..Len(rets) :
        (Corrected(i) /\ ~Ret(i).threw) =>
            \A k, m \in DOMAIN Categories(i) :
                RatLT(Categories(i)[m].value.originalScore, Categories(i)[k].value.originalScore)
                => RatLE(Categories(i)[m].value.correctedScore, Categories(i)[k].value.correctedScore)


\* C15: the global correction points against the detected bias: whenever
\* responseStyle is high_acquiescence the globalFactor is strictly less than
\* 1, and whenever it is low_acquiescence the globalFactor is strictly
\* greater than 1. (Refuted for low_acquiescence detected by the mean alone:
\* without a single 1 among the responses the factor is exactly 1.)
C15_AsStated ==
    \A i \in 1..Len(rets) :
        (Corrected(i) /\ ~Ret(i).threw) =>
            /\ Ret(i).value.responseStyle = "high_acquiescence"
                   => RatLT(Ret(i).value.metadata.globalFactor, Rat(1, 1))
            /\ Ret(i).value.responseStyle = "low_acquiescence"
                   => RatLT(Rat(1, 1), Ret(i).value.metadata.globalFactor)



\* C16: when the detected responseStyle is 'balanced' no correction is
\* applied: globalFactor is 1, every category's relativeFactor is 1, every
\* category's correctedScore equals its originalScore and
\* metadata.correctionApplied is false. (Refuted: the zero-variance
\* correction and the lower bound 1.01 act on balanced results too.)
C16_AsStated ==
    \A i \in 1..Len(rets) :
        (Corrected(i) /\ ~Ret(i).threw /\ Ret(i).value.responseStyle = "balanced") =>
            /\ RatEQ(Ret(i).value.metadata.globalFactor, Rat(1, 1))
            /\ ~Ret(i).value.metadata.correctionApplied
            /\ \A k \in DOMAIN Categories(i) :
                   /\ RatEQ(Categories(i)[k].value.relativeFactor, Rat(1, 1))
                   /\ RatEQ(Categories(i)[k].value.correctedScore,
                            Categories(i)[k].value.originalScore)


(***************************************************************************)
(* Claims on the worked scenarios of the single-scale corrector, under     *)
(* SpecScore.                                                              *)
(***************************************************************************)
\* the i-th call was calculatePsychologicalScore on the list of Scenario 2
Scenario2(i) == Scored(i) /\ Ints(Arg(i)) = <<5, 5, 5, 5, 5, 5, 5, 3, 2, 4>>

\* C17 as stated: for [5,5,5,5,5,5,5,3,2,4] the call returns distortionType
\* 'high' with the mean 39/10 = 3.9 and correctedScore 3.9 * 0.79 = 3.081.
C17_AsStated ==
    \A i \in 1..Len(rets) :
        Scenario2(i) =>
            /\ Ret(i).value.distortionType = "high"
            /\ RatEQ(Ret(i).value.normalizedScore, Rat(39, 10))
            /\ RatEQ(Ret(i).value.correctedScore, Rat(3081, 1000))

\* C17 (amended): for [5,5,5,5,5,5,5,3,2,4] (7 fives of 10, threshold 7,
\* sum 44) the call returns distortionType 'high', normalizedScore
\* 44/10 = 4.4 and correctedScore 4.4 * (1 - 0.7*0.3) = 3.476.
C17_Scenario2 ==
    \A i \in 1..Len(rets) :
        Scenario2(i) =>
            /\ Ret(i).value.distortionType = "high"
            /\ Ret(i).value.responses5Count = 7
            /\ Ret(i).value.threshold = 7
            /\ Ret(i).value.totalScore = 44
            /\ RatEQ(Ret(i).value.normalizedScore, Rat(44, 10))
            /\ RatEQ(Ret(i).value.correctedScore, Rat(3476, 1000))

\* the call on the list of Scenario 2 has returned 'high' and 3.476
C17_Witness ==
    /\ Scenario2(1)
    /\ Ret(1).value.distortionType = "high"
    /\ Ret(1).value.correctedScore = Rat(34760, 10000)


\* C18: for a list split between the two extremes (4 ones and 6 fives of
\* 10) the call reports distortionType 'both' and applies the high
\* reduction, then the low boost: 3.4 * (1 - 0.6*0.3) * (1 + 0.4*0.3) = 3.1226.
\* (Refuted: neither count reaches the threshold 7 and the call reports
\* 'none'.)
C18_AsStated ==
    \A i \in 1..Len(rets) :
        (Scored(i) /\ Ints(Arg(i)) = <<1, 1, 1, 1, 5, 5, 5, 5, 5, 5>>) =>
            /\ Ret(i).value.distortionType = "both"
            /\ IsRounded4(Ret(i).value.correctedScore, 34 * 82 * 112, 10 * 100 * 100)


(***************************************************************************)
(* Claims on the options given at construction, under SpecOptions.         *)
(***************************************************************************)
\* C19: the configured maxRelativeAdjustment bounds the relative adjustment:
\* for the value r given at construction every category's relativeFactor
\* lies in [1 - r, 1 + r]. (Refuted: the option is never read.)
C19_AsStated ==
    \A i \in 1..Len(rets) :
        (Corrected(i) /\ ~Ret(i).threw) =>
            \A k \in DOMAIN Categories(i) :
                /\ RatLE(RatSub(Rat(1, 1), options.maxRelativeAdjustment),
                         Categories(i)[k].value.relativeFactor)
                /\ RatLE(Categories(i)[k].value.relativeFactor,
                         RatAdd(Rat(1, 1), options.maxRelativeAdjustment))

\* C20: the configured maxGlobalAdjustment is the maximum global correction:
\* for the value m given at construction the globalFactor returned satisfies
\* 1 - m <= globalFactor <= 1 + m. (Refuted: central_tendency gives 1.05
\* whatever m is.)
C20_AsStated ==
    \A i \in 1..Len(rets) :
        (Corrected(i) /\ ~Ret(i).threw) =>
            /\ RatLE(RatSub(Rat(1, 1), options.maxGlobalAdjustment),
                     Ret(i).value.metadata.globalFactor)
            /\ RatLE(Ret(i).value.metadata.globalFactor,
                     RatAdd(Rat(1, 1), options.maxGlobalAdjustment))


GreaterScores(i, k) ==
    Cardinality({m \in DOMAIN Categories(i) :
                    RatLT(Categories(i)[k].value.originalScore,
                          Categories(i)[m].value.originalScore)})

\* C22 (under SpecMulti): the position of each of the n categories has
\* rank = 1 + (number of categories with a strictly greater score), so equal
\* scores share a rank, and percentileRank = (n - rank + 1) / n; hence
\* 1 <= rank <= n and 0 < percentileRank <= 1.
C22_Rank ==
    \A i \in 1..Len(rets) :
        (Corrected(i) /\ ~Ret(i).threw) =>
            \A k \in DOMAIN Categories(i) :
                LET n == Len(Categories(i))
                    p == Categories(i)[k].value.position
                IN  /\ RatEQ(p.score, Categories(i)[k].value.originalScore)
                    /\ p.rank = 1 + GreaterScores(i, k)
                    /\ RatEQ(p.percentileRank, Rat(n - p.rank + 1, n))
                    /\ 1 <= p.rank /\ p.rank <= n
                    /\ RatLT(Rat(0, 1), p.percentileRank)
                    /\ RatLE(p.percentileRank, Rat(1, 1))
                    /\ \A m \in DOMAIN Categories(i) :
                           RatEQ(Categories(i)[m].value.originalScore,
                                 Categories(i)[k].value.originalScore)
                           => Categories(i)[m].value.position.rank = p.rank

\* three categories with the means 5, 5 and 1: the ranks are 1, 1 and 3, no
\* permutation of 1..3
C22_Witness ==
    /\ Corrected(1)
    /\ ~Ret(1).threw
    /\ Len(Categories(1)) = 3
    /\ Categories(1)[1].value.position.rank = 1
    /\ Categories(1)[2].value.position.rank = 1
    /\ Categories(1)[3].value.position.rank = 3
    /\ Categories(1)[3].value.position.percentileRank = Rat(1, 3)


\* C27 (under SpecOptions): metadata.correctionApplied is true if and only
\* if responseStyle is not 'balanced': globalFactor differs from 1 only for
\* styles other than balanced, so the disjunct globalFactor !== 1.0 never
\* adds a case.
C27_CorrectionApplied ==
    \A i \in 1..Len(rets) :
        (Corrected(i) /\ ~Ret(i).threw) =>
            /\ Ret(i).value.metadata.correctionApplied
                   <=> (Ret(i).value.responseStyle # "balanced")
            /\ ~RatEQ(Ret(i).value.metadata.globalFactor, Rat(1, 1))
                   => Ret(i).value.responseStyle # "balanced"

\* a balanced result (globalFactor 1, correctionApplied false) of a
\* corrector configured with maxGlobalAdjustment 0.5
C27_Witness ==
    /\ Corrected(1)
    /\ ~Ret(1).threw
    /\ options.maxGlobalAdjustment = Rat(1, 2)
    /\ Ret(1).value.responseStyle = "balanced"
    /\ Ret(1).value.metadata.globalFactor = Rat(1, 1)
    /\ ~Ret(1).value.metadata.correctionApplied


\* C25 (under SpecStyle): no valid category map is classified
\* 'extreme_style': whenever p5 < 0.4, p1 < 0.4 and p5 + p1 >= 0.6 the
\* variance of the responses is at least 1.5, so the responseStyle is
\* high_acquiescence, low_acquiescence, central_tendency or balanced.
C25_NeverExtreme ==
    \A i \in 1..Len(rets) :
        (Corrected(i) /\ ~Ret(i).threw) =>
            LET g == Ret(i).value.globalStats
            IN  /\ (/\ RatLT(g.responses5Percent, Rat(4, 10))
                    /\ RatLT(g.responses1Percent, Rat(4, 10))
                    /\ RatLE(Rat(6, 10), RatAdd(g.responses5Percent, g.responses1Percent)))
                   => RatLE(Rat(15, 10), g.variance)
                /\ Ret(i).value.responseStyle \in
                       {"high_acquiescence", "low_acquiescence", "central_tendency", "balanced"}

\* three ones, three fives and four threes: p5 = p1 = 0.3, variance 2.4,
\* classified balanced
C25_Witness ==
    /\ Corrected(1)
    /\ ~Ret(1).threw
    /\ Ret(1).value.globalStats.totalQuestions = 10
    /\ Ret(1).value.globalStats.responses5Percent = Rat(3, 10)
    /\ Ret(1).value.globalStats.responses1Percent = Rat(3, 10)
    /\ RatEQ(Ret(1).value.globalStats.variance, Rat(24, 10))
    /\ Ret(1).value.responseStyle = "balanced"


(***************************************************************************)
(* The two single-scale correctors compared, under SpecBoth.               *)
(***************************************************************************)
\* the corrected score of the valid list x before any cut: the mean with the
\* correction of its distortion type, if any
Unclamped(x) ==
    LET n    == Len(x.elems)
        c5   == CountOf(Ints(x), 5)
        c1   == CountOf(Ints(x), 1)
        t    == Threshold(n)
        mean == Rat(SumOf(Ints(x)), n)
    IN  IF c5 >= t THEN HighCorrection(mean, c5, n)
        ELSE IF c1 >= t THEN LowBoost(mean, c1, n)
        ELSE mean

\* both calls on the same list have returned
BothDone == Done(2) /\ Scored(1)

\* C26 as stated: no cut changes the value, and the corrector that cuts only
\* at the end (calculatePsychologicalScore) and the one that cuts after each
\* step (correctScoreBidirectional) return the same correctedScore.
C26_AsStated ==
    BothDone =>
        /\ RatLE(Rat(10001, 10000), Unclamped(Arg(1)))
        /\ RatLE(Unclamped(Arg(1)), Rat(5, 1))
        /\ RatEQ(Ret(1).value.correctedScore, Ret(2).value.correctedScore)

\* C26 (amended): no cut changes the value (the corrected score before any
\* cut lies in [1.0001, 5]), correctScoreBidirectional returns exactly that
\* value, and calculatePsychologicalScore returns it rounded to four
\* decimals.
C26_SameUpToRounding ==
    BothDone =>
        /\ RatLE(Rat(10001, 10000), Unclamped(Arg(1)))
        /\ RatLE(Unclamped(Arg(1)), Rat(5, 1))
        /\ RatEQ(Ret(2).value.correctedScore, Unclamped(Arg(1)))
        /\ IsRounded4(Ret(1).value.correctedScore,
                      Ret(2).value.correctedScore.n, Ret(2).value.correctedScore.d)

\* [4,5,5,5]: the step-wise corrector returns 3.68125, the other 3.6812 or
\* 3.6813
C26_Witness ==
    /\ BothDone
    /\ Ints(Arg(1)) = <<4, 5, 5, 5>>
    /\ Ret(2).value.meta.highDistortionDetected
    /\ RatEQ(Ret(2).value.correctedScore, Rat(368125, 100000))
    /\ Ret(1).value.correctedScore \in {Rat(36812, 10000), Rat(36813, 10000)}


(***************************************************************************)
(* Claims on the PsychologicalTest object, under SpecTest.                 *)
(***************************************************************************)
\* the valid responses: the integers 1..5
ValidResponse(v) == v \in {Num(k) : k \in 1..5}

\* the step made is a call of the method fn
Called(fn) == Len(args') = Len(args) + 1 /\ args'[Len(args')].fn = fn

\* the argument and the outcome of the call the step made
CalledArg == args'[Len(args')].arg

Outcome == rets'[Len(rets')]

\* every stored response is an integer in 1..5
StoredValid == \A k \in DOMAIN test.responses : ValidResponse(test.responses[k])

\* an addResponse step with an invalid value throws and changes nothing of
\* the object; one with a valid value appends it
AddResponseStep ==
    Called("addResponse") =>
        IF ValidResponse(CalledArg)
        THEN /\ ~Outcome.threw
             /\ test'.responses = Append(test.responses, CalledArg)
             /\ test'.questions = test.questions
             /\ test'.results = test.results
        ELSE /\ Outcome.threw
             /\ test' = test

\* C23: after any sequence of addQuestion, addResponse, setResponses,
\* calculateResults and reset calls (throwing ones included) every stored
\* response is an integer in 1..5; an addResponse call with an invalid value
\* throws and leaves responses, questions and results unchanged, a valid one
\* appends exactly that value at the end.
C23_Responses == [](StoredValid) /\ [][AddResponseStep]_vars

\* a valid response added after a setResponses call that threw and left its
\* valid prefix <<3>>
C23_Witness ==
    /\ Len(rets) = 3
    /\ args[2].fn = "setResponses" /\ rets[2].threw
    /\ args[3].fn = "addResponse" /\ ~rets[3].threw
    /\ test.responses = <<Num(3), Num(5)>>


\* the index (from 1) of the first invalid element of a list, or 0
FirstInvalid(elems) ==
    IF \A k \in DOMAIN elems : ValidResponse(elems[k]) THEN 0
    ELSE CHOOSE k \in DOMAIN elems :
             ~ValidResponse(elems[k]) /\ \A j \in 1..(k - 1) : ValidResponse(elems[j])

\* a setResponses step on an array with an invalid element
SetResponsesStep ==
    (Called("setResponses") /\ CalledArg.isArray /\ FirstInvalid(CalledArg.elems) > 0) =>
        /\ Outcome.threw
        /\ test'.responses = SubSeq(CalledArg.elems, 1, FirstInvalid(CalledArg.elems) - 1)
        /\ test'.results = test.results
        /\ test'.questions = test.questions

\* C29: setResponses is not atomic: when its argument has its first invalid
\* element at index i (from 0), the call throws after having discarded the
\* stored responses and stored the first i elements of the argument; the
\* responses are left equal to that valid prefix, results and questions
\* unchanged.
C29_NotAtomic == [][SetResponsesStep]_vars

\* setResponses([1, 1]), calculateResults, then setResponses([3, 6, 4]):
\* the call throws, the responses are [3], the results still those of [1, 1]
C29_Witness ==
    /\ Len(rets) = 3
    /\ args[1].fn = "setResponses" /\ ~rets[1].threw
    /\ args[2].fn = "calculateResults" /\ ~rets[2].threw
    /\ args[3].fn = "setResponses" /\ rets[3].threw
    /\ test.responses = <<Num(3)>>
    /\ test.results = rets[2].value
    /\ test.results.totalScore = 2


\* the results calculatePsychologicalScore gives for the responses x
FreshResults(x) == {calculatePsychologicalScore(Array(x), up).value : up \in BOOLEAN}

\* what a getInterpretation or exportToObject call reported
Reported(fn, outcome) ==
    IF fn = "exportToObject" THEN outcome.value.interpretation ELSE outcome.value

\* a getInterpretation or exportToObject step calculates the results only
\* when there are none; otherwise it changes nothing and reports the stored
\* score and distortion
InterpretStep ==
    \A fn \in {"getInterpretation", "exportToObject"} :
        Called(fn) =>
            IF test.results = NoResults
            THEN IF Len(test.responses) = 0
                 THEN Outcome.threw /\ test' = test
                 ELSE /\ ~Outcome.threw
                      /\ test'.results \in FreshResults(test.responses)
                      /\ Reported(fn, Outcome) = Interpretation(test'.results)
            ELSE /\ ~Outcome.threw
                 /\ test' = test
                 /\ Reported(fn, Outcome).score = test.results.correctedScore
                 /\ Reported(fn, Outcome).distortion = test.results.distortionType

\* addResponse and setResponses leave the results as they are; only
\* calculateResults and reset replace them
ResultsStep ==
    /\ (Called("addResponse") \/ Called("setResponses") \/ Called("addQuestion"))
           => test'.results = test.results
    /\ Called("reset") => test'.results = NoResults
    /\ (Called("calculateResults") /\ ~Outcome.threw)
           => test'.results \in FreshResults(test.responses)

\* C28: getInterpretation and exportToObject recompute the results only
\* while results is empty: once calculateResults has run, later addResponse
\* or setResponses calls do not change the score and distortion they report
\* until calculateResults or reset is called, so what they report can differ
\* from calculatePsychologicalScore of the current responses.
C28_StaleResults == [][InterpretStep /\ ResultsStep]_vars

\* addResponse(5), calculateResults, setResponses([1, 1]), getInterpretation:
\* the score reported is 3.5 ('high'), that of the current responses 1.3
C28_Witness ==
    /\ Len(rets) = 4
    /\ args[2].fn = "calculateResults" /\ ~rets[2].threw
    /\ args[3].fn = "setResponses" /\ ~rets[3].threw
    /\ args[4].fn = "getInterpretation" /\ ~rets[4].threw
    /\ test.responses = <<Num(1), Num(1)>>
    /\ rets[4].value.score = Rat(35000, 10000)
    /\ rets[4].value.distortion = "high"
    /\ \A fresh \in FreshResults(test.responses) :
           fresh.correctedScore = Rat(13000, 10000) /\ fresh.distortionType = "low"


(***************************************************************************)
(* The shared corrector, under SpecShared.                                 *)
(***************************************************************************)
\* the outcomes of a call made alone on a corrector as constructed
Alone(call) ==
    IF call.fn = "correctMultiCategory"
    THEN {correctMultiCategory(call.arg, below) : below \in BOOLEAN}
    ELSE {Return(generateReport(call.arg, up)) : up \in BOOLEAN}

\* the corrector is as constructed and every invocation made so far has
\* returned what it returns alone for the argument as it is now
SameAsAlone ==
    /\ options = Constructor(<<>>)
    /\ categoryDifficultyIndices = DefaultDifficultyIndices
    /\ \A i \in DOMAIN rets : rets[i] \in Alone(args[i])

\* a step changes neither the options, nor the table, nor the arguments of
\* the invocations made before it
NoWrite ==
    /\ options' = options
    /\ categoryDifficultyIndices' = categoryDifficultyIndices
    /\ \A i \in DOMAIN args : args'[i] = args[i]

Successful(i) == ~rets[i].threw

\* every logTest call has returned
AllLogged == \A i \in DOMAIN logTests : logTests[i].pc \in {"none", "done"}

\* test-logs.json holds an entry of request i
Recorded(i) ==
    /\ logFile.content = "json"
    /\ \E k \in DOMAIN logFile.logs : logFile.logs[k].timestamp = i

\* C30: every successful /api/calculate request is recorded in the test
\* log: once the logTest calls of overlapping requests have all completed,
\* the log file holds one entry for each of those requests (at most
\* MaxRequests requests are made, so the keep-last-1000 cut never drops one
\* of them).
C30_AsStated == AllLogged => \A i \in DOMAIN rets : Successful(i) => Recorded(i)

====
